---- MODULE Spec2Model ----
(***************************************************************************)
(* UniDiffuser sampling pipeline (ppdiffusers): the latent codec, the      *)
(* guided noise predictor, the denoising loop and the mode dispatcher of   *)
(* UniDiffuserPipeline, modelled as state machines.                        *)
(*                                                                         *)
(* Tensors are nested sequences, indexed from 1:                           *)
(*   image-VAE latent   img_vae[b][c][h][w]                                *)
(*   image-CLIP latent  img_clip[b][l][d]     (l = 1)                      *)
(*   text latent        text[b][l][d]                                      *)
(*   packed latent      x[b][k]                                            *)
(* with integer entries.                                                   *)
(***************************************************************************)
EXTENDS Integers, Sequences, FiniteSets, TLC

VARIABLES codec, call, scheduler, trace, rng, session

vars == <<codec, call, scheduler, trace, rng, session>>

----------------------------------------------------------------------------
(* Dimensions.  The pretrained model uses 4 x 64 x 64 VAE latents, a 512   *)
(* wide CLIP image embedding and 77 x 64 text latents; the model keeps the *)
(* layout and scales the sizes down.                                       *)

vae_scale_factor == 8

num_channels_latents == 2

image_encoder_clip_img_dim == 2

text_encoder_seq_len == 2

text_encoder_text_dim == 1

\* largest latent side (height // vae_scale_factor) an input may have
MaxLatentSide == 2

\* largest batch dimension of an input tensor
MaxBatch == 2

\* input tensors are filled from patterns 0..MaxFill
MaxFill == 1

----------------------------------------------------------------------------
(* Tensor helpers *)

\* x itself, evaluated once: the comparison makes TLC build the whole tensor
\* where it would otherwise recompute an entry at every use
Dense(x) == IF x = x THEN x ELSE x

\* the sequence s[from..from+len-1]
Slice(s, from, len) == Dense([k \in 1..len |-> s[from + k - 1]])

\* einops.rearrange(t, "B C H W -> B (C H W)"): row-major flattening
FlattenCHW(t) ==
    Dense(
        [b \in 1..Len(t) |->
            LET C == Len(t[b])
                H == Len(t[b][1])
                W == Len(t[b][1][1])
            IN  [k \in 1..(C * H * W) |->
                    t[b][((k - 1) \div (H * W)) + 1]
                        [(((k - 1) % (H * W)) \div W) + 1]
                        [((k - 1) % W) + 1]]])

\* einops.rearrange(x, "B (C H W) -> B C H W", C=C, H=H, W=W)
UnflattenCHW(x, C, H, W) ==
    Dense(
        [b \in 1..Len(x) |->
            [c \in 1..C |-> [h \in 1..H |-> [w \in 1..W |->
                x[b][(c - 1) * H * W + (h - 1) * W + w]]]]])

\* einops.rearrange(t, "B L D -> B (L D)")
FlattenLD(t) ==
    Dense(
        [b \in 1..Len(t) |->
            LET L == Len(t[b])
                D == Len(t[b][1])
            IN  [k \in 1..(L * D) |-> t[b][((k - 1) \div D) + 1][((k - 1) % D) + 1]]])

\* einops.rearrange(x, "B (L D) -> B L D", L=L, D=D)
UnflattenLD(x, L, D) ==
    Dense(
        [b \in 1..Len(x) |-> [l \in 1..L |-> [d \in 1..D |-> x[b][(l - 1) * D + d]]]])

\* paddle.concat([x, y], axis=-1) of two (B, k) tensors
ConcatLast(x, y) == Dense([b \in 1..Len(x) |-> x[b] \o y[b]])

\* x.split(sizes, axis=1): the block of `len` entries starting after `skip`
SplitBlock(x, skip, len) == Dense([b \in 1..Len(x) |-> Slice(x[b], skip + 1, len)])

----------------------------------------------------------------------------
(* Latent codec: UniDiffuserPipeline._split / _combine / _split_joint /    *)
(* _combine_joint                                                          *)

\* mutant: the CLIP block is taken from the front of the packed vector
Split_clipFirst(x, height, width) ==
    LET latent_height == height \div vae_scale_factor
        latent_width == width \div vae_scale_factor
        img_vae_dim == num_channels_latents * latent_height * latent_width
    IN  [img_vae |-> UnflattenCHW(SplitBlock(x, image_encoder_clip_img_dim, img_vae_dim),
                                  num_channels_latents, latent_height, latent_width),
         img_clip |-> UnflattenLD(SplitBlock(x, 0, image_encoder_clip_img_dim),
                                  1, image_encoder_clip_img_dim)]

_split(x, height, width) ==
    LET latent_height == height \div vae_scale_factor
        latent_width == width \div vae_scale_factor
        img_vae_dim == num_channels_latents * latent_height * latent_width
    IN  [img_vae |-> UnflattenCHW(SplitBlock(x, 0, img_vae_dim),
                                  num_channels_latents, latent_height, latent_width),
         img_clip |-> UnflattenLD(SplitBlock(x, img_vae_dim, image_encoder_clip_img_dim),
                                  1, image_encoder_clip_img_dim)]

_combine(img_vae, img_clip) == ConcatLast(FlattenCHW(img_vae), FlattenLD(img_clip))

_split_joint(x, height, width) ==
    LET latent_height == height \div vae_scale_factor
        latent_width == width \div vae_scale_factor
        img_vae_dim == num_channels_latents * latent_height * latent_width
        text_dim == text_encoder_seq_len * text_encoder_text_dim
    IN  [img_vae |-> UnflattenCHW(SplitBlock(x, 0, img_vae_dim),
                                  num_channels_latents, latent_height, latent_width),
         img_clip |-> UnflattenLD(SplitBlock(x, img_vae_dim, image_encoder_clip_img_dim),
                                  1, image_encoder_clip_img_dim),
         text |-> UnflattenLD(SplitBlock(x, img_vae_dim + image_encoder_clip_img_dim, text_dim),
                              text_encoder_seq_len, text_encoder_text_dim)]

_combine_joint(img_vae, img_clip, text) ==
    ConcatLast(ConcatLast(FlattenCHW(img_vae), FlattenLD(img_clip)), FlattenLD(text))

----------------------------------------------------------------------------
(* Elementwise arithmetic and collaborators of the sampling pipeline *)

\* entries of latents, network outputs and noise are kept in 0..ValMod-1
ValMod == 7

\* N = len(stable_diffusion_beta_schedule()), the sentinel timestep
N == 1000

RECURSIVE SumSeq(_)
SumSeq(s) == IF Len(s) = 0 THEN 0 ELSE s[1] + SumSeq(Tail(s))

\* an absent tensor (None)
NoTensor == <<>>

\* shape of a (B, C, H, W) tensor and of a (B, L, D) tensor
Shape4(t) == <<Len(t), Len(t[1]), Len(t[1][1]), Len(t[1][1][1])>>

Shape3(t) == <<Len(t), Len(t[1]), Len(t[1][1])>>

\* mutant: the difference is taken the other way round
Guide2_reversed(x_out, x_out_uncond, g) ==
    Dense(
        [b \in 1..Len(x_out) |-> [k \in 1..Len(x_out[b]) |->
            x_out[b][k] + g * (x_out_uncond[b][k] - x_out[b][k])]])

\* x_out + guidance_scale * (x_out - x_out_uncond) on packed (B, k) tensors
Guide2(x_out, x_out_uncond, g) ==
    Dense(
        [b \in 1..Len(x_out) |-> [k \in 1..Len(x_out[b]) |->
            x_out[b][k] + g * (x_out[b][k] - x_out_uncond[b][k])]])

\* the same on (B, L, D) tensors
Guide3(x_out, x_out_uncond, g) ==
    Dense(
        [b \in 1..Len(x_out) |-> [l \in 1..Len(x_out[b]) |-> [d \in 1..Len(x_out[b][l]) |->
            x_out[b][l][d] + g * (x_out[b][l][d] - x_out_uncond[b][l][d])]]])

\* entry k of the n-th draw of a generator seeded with `seed`
NoiseVal(seed, n, k) == (seed * 5 + n * 3 + k) % ValMod

\* paddle.randn(shape) for a 4-d shape: the n-th draw of the generator
Randn4(seed, n, shape) ==
    Dense(
        [b \in 1..shape[1] |-> [c \in 1..shape[2] |-> [h \in 1..shape[3] |-> [w \in 1..shape[4] |->
            NoiseVal(seed, n, (((b - 1) * shape[2] + (c - 1)) * shape[3] + (h - 1)) * shape[4] + w)]]]])

Randn3(seed, n, shape) ==
    Dense(
        [b \in 1..shape[1] |-> [l \in 1..shape[2] |-> [d \in 1..shape[3] |->
            NoiseVal(seed, n, ((b - 1) * shape[2] + (l - 1)) * shape[3] + d)]]])

Scale4(t, k) ==
    Dense(
        [b \in 1..Len(t) |-> [c \in 1..Len(t[b]) |-> [h \in 1..Len(t[b][c]) |->
            [w \in 1..Len(t[b][c][h]) |-> t[b][c][h][w] * k]]]])

Scale3(t, k) ==
    Dense(
        [b \in 1..Len(t) |-> [l \in 1..Len(t[b]) |-> [d \in 1..Len(t[b][l]) |-> t[b][l][d] * k]]])

\* The denoising network (UViTModel), a deterministic stub: every output
\* entry depends on the entry at the same place, on all three inputs of the
\* same sample and on both timesteps.  It fails when the batch dimensions of
\* its inputs differ.
UNetMix(img_vae, img_clip, text, t_img, t_text, data_type) ==
    Dense(
        LET v == FlattenCHW(img_vae)
            c == FlattenLD(img_clip)
            x == FlattenLD(text)
        IN  [b \in 1..Len(img_vae) |->
                3 * SumSeq(v[b]) + 2 * SumSeq(c[b]) + SumSeq(x[b]) + t_img + 2 * t_text + data_type])

unet(img_vae, img_clip, text, t_img, t_text, data_type) ==
    IF Len(img_vae) # Len(img_clip) \/ Len(img_vae) # Len(text)
    THEN [ok |-> FALSE, img_vae |-> NoTensor, img_clip |-> NoTensor, text |-> NoTensor]
    ELSE
    LET mix == UNetMix(img_vae, img_clip, text, t_img, t_text, data_type)
    IN  [ok |-> TRUE,
         img_vae |-> Dense([b \in 1..Len(img_vae) |-> [c \in 1..Len(img_vae[b]) |->
                        [h \in 1..Len(img_vae[b][c]) |-> [w \in 1..Len(img_vae[b][c][h]) |->
                            (img_vae[b][c][h][w] + mix[b]) % ValMod]]]]),
         img_clip |-> Dense([b \in 1..Len(img_clip) |-> [l \in 1..Len(img_clip[b]) |->
                        [d \in 1..Len(img_clip[b][l]) |->
                            (img_clip[b][l][d] + 1 + 2 * mix[b]) % ValMod]]]),
         text |-> Dense([b \in 1..Len(text) |-> [l \in 1..Len(text[b]) |->
                        [d \in 1..Len(text[b][l]) |->
                            (text[b][l][d] + 2 + 3 * mix[b]) % ValMod]]])]

----------------------------------------------------------------------------
(* Noise predictor: UniDiffuserPipeline.get_noise_pred *)

\* where the content of a network input comes from: the diffused latent of
\* the loop, an argument fixed for the whole run, or draw n of paddle.randn
FromLatents == [kind |-> "latents", n |-> 0]

FromFixed == [kind |-> "fixed", n |-> 0]

FromRandn(n) == [kind |-> "randn", n |-> n]

\* one call self.unet(img_vae, img_clip, text, t_img=, t_text=, data_type=)
\* together with what it returns
NetCall(pass, img_vae, img_clip, text, t_img, t_text, src_vae, src_clip, src_text) ==
    [pass |-> pass, img_vae |-> img_vae, img_clip |-> img_clip, text |-> text,
     t_img |-> t_img, t_text |-> t_text, data_type |-> 1,
     src_vae |-> src_vae, src_clip |-> src_clip, src_text |-> src_text,
     out |-> unet(img_vae, img_clip, text, t_img, t_text, 1)]

\* the result of get_noise_pred: the prediction, the network calls made in
\* order, and the number of paddle.randn draws taken from the global state
Pred(pred, calls, draws) == [ok |-> TRUE, pred |-> pred, calls |-> calls, draws |-> draws]

\* a network call raised: the exception leaves get_noise_pred
PredRaised(calls, draws) == [ok |-> FALSE, pred |-> NoTensor, calls |-> calls, draws |-> draws]

\* `if guidance_scale == 0.0: return x_out`
\* mutant: guidance is taken to be switched off at scale 1
NoGuidance_atOne(guidance_scale) == guidance_scale = 1

NoGuidance(guidance_scale) == guidance_scale = 0

\* `paddle.ones_like(t) * N`, the timestep of a modality forced to noise
\* mutant: the scheduled timestep is passed on
ones_like_times_N_keepsT(t) == t

ones_like_times_N(t) == N

\* In the operators below `seed` is the seed of the global random state and
\* n the number of draws taken from it so far.

\* mutant: the unconditioned joint output takes every slice from the pass
\* whose image inputs were forced to noise
get_noise_pred_joint_onePass(latents, t, prompt_embeds, img_vae, img_clip, guidance_scale, height, width, seed, n) ==
    LET s == _split_joint(latents, height, width)
        c1 == NetCall("cond", s.img_vae, s.img_clip, s.text, t, t,
                      FromLatents, FromLatents, FromLatents)
        x_out == _combine_joint(c1.out.img_vae, c1.out.img_clip, c1.out.text)
        img_vae_T == Randn4(seed, n + 1, Shape4(img_vae))
        img_clip_T == Randn3(seed, n + 2, Shape3(img_clip))
        c2 == NetCall("uncond_img", img_vae_T, img_clip_T, s.text, ones_like_times_N(t), t,
                      FromRandn(n + 1), FromRandn(n + 2), FromLatents)
        text_T == Randn3(seed, n + 3, Shape3(prompt_embeds))
        c3 == NetCall("uncond_text", s.img_vae, s.img_clip, text_T, t, ones_like_times_N(t),
                      FromLatents, FromLatents, FromRandn(n + 3))
        x_out_uncond == _combine_joint(c2.out.img_vae, c2.out.img_clip, c2.out.text)
    IN  IF ~c1.out.ok THEN PredRaised(<<c1>>, 0)
        ELSE IF NoGuidance(guidance_scale) THEN Pred(x_out, <<c1>>, 0)
        ELSE IF ~c2.out.ok THEN PredRaised(<<c1, c2>>, 2)
        ELSE IF ~c3.out.ok THEN PredRaised(<<c1, c2, c3>>, 3)
        ELSE Pred(Guide2(x_out, x_out_uncond, guidance_scale), <<c1, c2, c3>>, 3)

\* mode == "joint"
get_noise_pred_joint(latents, t, prompt_embeds, img_vae, img_clip, guidance_scale, height, width, seed, n) ==
    LET s == _split_joint(latents, height, width)
        c1 == NetCall("cond", s.img_vae, s.img_clip, s.text, t, t,
                      FromLatents, FromLatents, FromLatents)
        x_out == _combine_joint(c1.out.img_vae, c1.out.img_clip, c1.out.text)
        img_vae_T == Randn4(seed, n + 1, Shape4(img_vae))
        img_clip_T == Randn3(seed, n + 2, Shape3(img_clip))
        c2 == NetCall("uncond_img", img_vae_T, img_clip_T, s.text, ones_like_times_N(t), t,
                      FromRandn(n + 1), FromRandn(n + 2), FromLatents)
        text_T == Randn3(seed, n + 3, Shape3(prompt_embeds))
        c3 == NetCall("uncond_text", s.img_vae, s.img_clip, text_T, t, ones_like_times_N(t),
                      FromLatents, FromLatents, FromRandn(n + 3))
        x_out_uncond == _combine_joint(c3.out.img_vae, c3.out.img_clip, c2.out.text)
    IN  IF ~c1.out.ok THEN PredRaised(<<c1>>, 0)
        ELSE IF NoGuidance(guidance_scale) THEN Pred(x_out, <<c1>>, 0)
        ELSE IF ~c2.out.ok THEN PredRaised(<<c1, c2>>, 2)
        ELSE IF ~c3.out.ok THEN PredRaised(<<c1, c2, c3>>, 3)
        ELSE Pred(Guide2(x_out, x_out_uncond, guidance_scale), <<c1, c2, c3>>, 3)

\* mutant: the unconditioned pass is given the prompt embedding again
get_noise_pred_t2i_keepsPrompt(latents, t, prompt_embeds, img_vae, img_clip, guidance_scale, height, width, seed, n) ==
    LET s == _split(latents, height, width)
        c1 == NetCall("cond", s.img_vae, s.img_clip, prompt_embeds, t, 0,
                      FromLatents, FromLatents, FromFixed)
        img_out == _combine(c1.out.img_vae, c1.out.img_clip)
        c2 == NetCall("uncond", s.img_vae, s.img_clip, prompt_embeds, t, ones_like_times_N(t),
                      FromLatents, FromLatents, FromFixed)
        img_out_uncond == _combine(c2.out.img_vae, c2.out.img_clip)
    IN  IF ~c1.out.ok THEN PredRaised(<<c1>>, 0)
        ELSE IF NoGuidance(guidance_scale) THEN Pred(img_out, <<c1>>, 0)
        ELSE IF ~c2.out.ok THEN PredRaised(<<c1, c2>>, 0)
        ELSE Pred(Guide2(img_out, img_out_uncond, guidance_scale), <<c1, c2>>, 0)

\* mode == "t2i"
get_noise_pred_t2i(latents, t, prompt_embeds, img_vae, img_clip, guidance_scale, height, width, seed, n) ==
    LET s == _split(latents, height, width)
        c1 == NetCall("cond", s.img_vae, s.img_clip, prompt_embeds, t, 0,
                      FromLatents, FromLatents, FromFixed)
        img_out == _combine(c1.out.img_vae, c1.out.img_clip)
        text_T == Randn3(seed, n + 1, Shape3(prompt_embeds))
        c2 == NetCall("uncond", s.img_vae, s.img_clip, text_T, t, ones_like_times_N(t),
                      FromLatents, FromLatents, FromRandn(n + 1))
        img_out_uncond == _combine(c2.out.img_vae, c2.out.img_clip)
    IN  IF ~c1.out.ok THEN PredRaised(<<c1>>, 0)
        ELSE IF NoGuidance(guidance_scale) THEN Pred(img_out, <<c1>>, 0)
        ELSE IF ~c2.out.ok THEN PredRaised(<<c1, c2>>, 1)
        ELSE Pred(Guide2(img_out, img_out_uncond, guidance_scale), <<c1, c2>>, 1)

\* mode == "i2t"
get_noise_pred_i2t(latents, t, prompt_embeds, img_vae, img_clip, guidance_scale, height, width, seed, n) ==
    LET c1 == NetCall("cond", img_vae, img_clip, latents, 0, t,
                      FromFixed, FromFixed, FromLatents)
        img_vae_T == Randn4(seed, n + 1, Shape4(img_vae))
        img_clip_T == Randn3(seed, n + 2, Shape3(img_clip))
        c2 == NetCall("uncond", img_vae_T, img_clip_T, latents, ones_like_times_N(t), t,
                      FromRandn(n + 1), FromRandn(n + 2), FromLatents)
    IN  IF ~c1.out.ok THEN PredRaised(<<c1>>, 0)
        ELSE IF NoGuidance(guidance_scale) THEN Pred(c1.out.text, <<c1>>, 0)
        ELSE IF ~c2.out.ok THEN PredRaised(<<c1, c2>>, 2)
        ELSE Pred(Guide3(c1.out.text, c2.out.text, guidance_scale), <<c1, c2>>, 2)

\* mode == "t"
get_noise_pred_t(latents, t, prompt_embeds, img_vae, img_clip, guidance_scale, height, width, seed, n) ==
    LET c1 == NetCall("cond", img_vae, img_clip, latents, ones_like_times_N(t), t,
                      FromFixed, FromFixed, FromLatents)
    IN  IF ~c1.out.ok THEN PredRaised(<<c1>>, 0) ELSE Pred(c1.out.text, <<c1>>, 0)

\* mutant: the text placeholder is drawn anew at every iteration
get_noise_pred_i_redrawn(latents, t, prompt_embeds, img_vae, img_clip, guidance_scale, height, width, seed, n) ==
    LET s == _split(latents, height, width)
        c1 == NetCall("cond", s.img_vae, s.img_clip, Randn3(seed, n + t, Shape3(prompt_embeds)),
                      t, ones_like_times_N(t), FromLatents, FromLatents, FromFixed)
    IN  IF ~c1.out.ok THEN PredRaised(<<c1>>, 0)
        ELSE Pred(_combine(c1.out.img_vae, c1.out.img_clip), <<c1>>, 0)

\* mode == "i"
get_noise_pred_i(latents, t, prompt_embeds, img_vae, img_clip, guidance_scale, height, width, seed, n) ==
    LET s == _split(latents, height, width)
        c1 == NetCall("cond", s.img_vae, s.img_clip, prompt_embeds, t, ones_like_times_N(t),
                      FromLatents, FromLatents, FromFixed)
    IN  IF ~c1.out.ok THEN PredRaised(<<c1>>, 0)
        ELSE Pred(_combine(c1.out.img_vae, c1.out.img_clip), <<c1>>, 0)

get_noise_pred(mode, latents, t, prompt_embeds, img_vae, img_clip, guidance_scale, height, width, seed, n) ==
    CASE mode = "joint" ->
            get_noise_pred_joint(latents, t, prompt_embeds, img_vae, img_clip, guidance_scale, height, width, seed, n)
      [] mode = "t2i" ->
            get_noise_pred_t2i(latents, t, prompt_embeds, img_vae, img_clip, guidance_scale, height, width, seed, n)
      [] mode = "i2t" ->
            get_noise_pred_i2t(latents, t, prompt_embeds, img_vae, img_clip, guidance_scale, height, width, seed, n)
      [] mode = "t" ->
            get_noise_pred_t(latents, t, prompt_embeds, img_vae, img_clip, guidance_scale, height, width, seed, n)
      [] mode = "i" ->
            get_noise_pred_i(latents, t, prompt_embeds, img_vae, img_clip, guidance_scale, height, width, seed, n)

----------------------------------------------------------------------------
(* Scheduler (DPMSolverMultistepScheduler), consumed through set_timesteps, *)
(* timesteps, step, init_noise_sigma and order                              *)

init_noise_sigma == 1

scheduler_order == 1

\* scheduler.set_timesteps(num_inference_steps): a descending schedule of
\* num_inference_steps timesteps below N; the multistep history is cleared
Timesteps(num_inference_steps) ==
    [k \in 1..num_inference_steps |->
        ((N - 1) * (num_inference_steps - k + 1)) \div num_inference_steps]

set_timesteps(num_inference_steps) ==
    [timesteps |-> Timesteps(num_inference_steps), model_output |-> <<>>]

\* one entry of scheduler.step(model_output, t, sample).prev_sample; `last`
\* is the same entry of the model output kept from the previous step
StepVal(model_output, t, sample, last) == (sample + 2 * model_output + t + 3 * last) % ValMod

\* scheduler.step on a packed (B, k) latent
Step2(sch, model_output, t, sample) ==
    Dense(
        [b \in 1..Len(sample) |-> [k \in 1..Len(sample[b]) |->
            StepVal(model_output[b][k], t, sample[b][k],
                    IF sch.model_output = <<>> THEN 0 ELSE sch.model_output[b][k])]])

\* scheduler.step on a (B, L, D) text latent
Step3(sch, model_output, t, sample) ==
    Dense(
        [b \in 1..Len(sample) |-> [l \in 1..Len(sample[b]) |-> [d \in 1..Len(sample[b][l]) |->
            StepVal(model_output[b][l][d], t, sample[b][l][d],
                    IF sch.model_output = <<>> THEN 0 ELSE sch.model_output[b][l][d])]]])

----------------------------------------------------------------------------
(* Encoders and decoders, consumed through their interfaces *)

\* self.text_encoder(input_ids=self.tokenizer(prompt).input_ids).last_hidden_state:
\* one row per prompt of the list
text_encoder(ids) ==
    Dense(
        [b \in 1..Len(ids) |-> [l \in 1..text_encoder_seq_len |-> [d \in 1..text_encoder_text_dim |->
            (ids[b] * 3 + l * 2 + d) % ValMod]]])

\* self.caption_decoder.encode_prefix(prompt_embeds): the down-projection
encode_prefix(x) ==
    Dense(
        [b \in 1..Len(x) |-> [l \in 1..Len(x[b]) |-> [d \in 1..Len(x[b][l]) |->
            (2 * x[b][l][d] + 1) % ValMod]]])

\* An image is given by its content at latent resolution, image.data of
\* shape (B, C, height // vae_scale_factor, width // vae_scale_factor).
\* self.vae.encode(image).latent_dist.sample() * scaling_factor: the mean of
\* the latent distribution plus noise drawn from the global random state
vae_encode_sample(image, seed, n) ==
    LET noise == Randn4(seed, n, Shape4(image.data))
    IN  Dense(
        [b \in 1..Len(image.data) |-> [c \in 1..Len(image.data[b]) |->
            [h \in 1..Len(image.data[b][c]) |-> [w \in 1..Len(image.data[b][c][h]) |->
                (image.data[b][c][h][w] + 1 + noise[b][c][h][w]) % ValMod]]]])

\* self.image_encoder(self.image_feature_extractor(image)).image_embeds.unsqueeze(1)
image_encoder(image) ==
    Dense(
        [b \in 1..Len(image.data) |-> [l \in 1..1 |-> [d \in 1..image_encoder_clip_img_dim |->
            (SumSeq(FlattenCHW(image.data)[b]) + d) % ValMod]]])

\* decode_image_latents followed by numpy_to_pil: the generated images
decode_image_latents(latents) ==
    [kind |-> "tensor",
     data |-> Dense([b \in 1..Len(latents) |-> [c \in 1..Len(latents[b]) |->
                [h \in 1..Len(latents[b][c]) |-> [w \in 1..Len(latents[b][c][h]) |->
                    (latents[b][c][h][w] + ValMod - 1) % ValMod]]]])]

\* `paddle.split(features, 1, axis=0)`: the features are divided into one
\* section along the batch axis, which is the whole batch
split_features(features) == <<features>>

\* generate_beam, `generated.expand([beam_size, *generated.shape[1:]])`: the
\* embedding of a section can be expanded to the beams when its leading
\* dimension is 1
CaptionsFit(features) ==
    \A k \in 1..Len(split_features(features)) : Len(split_features(features)[k]) = 1

\* CaptionDecoder.generate_captions(features): one caption is generated for
\* every section of the split, the best of its beams
generate_captions(features) ==
    Dense(
        [k \in 1..Len(split_features(features)) |->
            SumSeq(FlattenLD(split_features(features)[k])[1]) % ValMod])

----------------------------------------------------------------------------
(* Input tensors of the codec specification *)

\* entry k of fill pattern f: injective in k for every f
FillVal(f, k) == k * (f + 1) + f

Fill4(f, B, C, H, W) ==
    Dense(
        [b \in 1..B |-> [c \in 1..C |-> [h \in 1..H |-> [w \in 1..W |->
            FillVal(f, (((b - 1) * C + (c - 1)) * H + (h - 1)) * W + w)]]]])

Fill3(f, B, L, D) ==
    Dense(
        [b \in 1..B |-> [l \in 1..L |-> [d \in 1..D |->
            FillVal(f, ((b - 1) * L + (l - 1)) * D + d)]]])

CodecIdle == [pc |-> "idle"]

CallIdle == [pc |-> "idle"]

RngIdle == [seed |-> 0, n |-> 0]

SchedulerIdle == [timesteps |-> <<>>, model_output |-> <<>>]

CodecInit ==
    \E B \in 1..MaxBatch, lh \in 1..MaxLatentSide, lw \in 1..MaxLatentSide,
       fa \in 0..MaxFill, fb \in 0..MaxFill, fc \in 0..MaxFill :
        codec = [pc |-> "input",
                 height |-> lh * vae_scale_factor,
                 width |-> lw * vae_scale_factor,
                 img_vae |-> Fill4(fa, B, num_channels_latents, lh, lw),
                 img_clip |-> Fill3(fb + 2, B, 1, image_encoder_clip_img_dim),
                 text |-> Fill3(fc + 4, B, text_encoder_seq_len, text_encoder_text_dim),
                 x |-> <<>>,
                 out |-> [img_vae |-> <<>>, img_clip |-> <<>>, text |-> <<>>]]

\* x = self._combine(img_vae, img_clip)
Combine ==
    /\ codec.pc = "input"
    /\ codec' = [codec EXCEPT !.pc = "packed", !.x = _combine(codec.img_vae, codec.img_clip)]
    /\ UNCHANGED <<call, scheduler, trace, rng, session>>

\* img_vae, img_clip = self._split(x, height, width)
Split ==
    /\ codec.pc = "packed"
    /\ codec' = [codec EXCEPT !.pc = "split", !.out = _split(codec.x, codec.height, codec.width) @@ [text |-> <<>>]]
    /\ UNCHANGED <<call, scheduler, trace, rng, session>>

\* x = self._combine_joint(img_vae, img_clip, text)
CombineJoint ==
    /\ codec.pc = "input"
    /\ codec' = [codec EXCEPT !.pc = "packed_joint",
                              !.x = _combine_joint(codec.img_vae, codec.img_clip, codec.text)]
    /\ UNCHANGED <<call, scheduler, trace, rng, session>>

\* img_vae, img_clip, text = self._split_joint(x, height, width)
SplitJoint ==
    /\ codec.pc = "packed_joint"
    /\ codec' = [codec EXCEPT !.pc = "split_joint",
                              !.out = _split_joint(codec.x, codec.height, codec.width)]
    /\ UNCHANGED <<call, scheduler, trace, rng, session>>

CodecSpecInit ==
    /\ CodecInit
    /\ call = CallIdle
    /\ scheduler = SchedulerIdle
    /\ trace = <<>>
    /\ rng = RngIdle
    /\ session = <<>>

CodecNext == Combine \/ Split \/ CombineJoint \/ SplitJoint

CodecSpec == CodecSpecInit /\ [][CodecNext]_vars

----------------------------------------------------------------------------
(* One call of UniDiffuserPipeline.__call__ *)

\* largest num_inference_steps of a call
MaxSteps == 2

\* guidance_scale ranges over 0..MaxGuidance
MaxGuidance == 2

\* seeds of the generator passed to a call: 1..MaxSeed
MaxSeed == 1

\* callback_steps ranges over 1..MaxCallbackSteps
MaxCallbackSteps == 2

\* num_samples ranges over 1..MaxSamples
MaxSamples == 2

\* self.unet.config.img_size, the default latent side
unet_img_size == 1

\* num_images_per_prompt ranges over 1..MaxImagesPerPrompt
MaxImagesPerPrompt == 2

Modes == {"joint", "t2i", "i2t", "t", "i", "t2i2t", "i2t2i"}

NoPrompt == [kind |-> "none", ids |-> <<>>]

StrPrompt(p) == [kind |-> "str", ids |-> <<p>>]

ListPrompt(ps) == [kind |-> "list", ids |-> ps]

NoImage == [kind |-> "none", data |-> <<>>]

\* an input image: a single PIL image or a batched tensor
InputImage(kind, f, B, lh, lw) ==
    [kind |-> kind,
     data |-> LET fill == Fill4(f, B, num_channels_latents, lh, lw)
              IN  Dense([b \in 1..B |-> [c \in 1..num_channels_latents |->
                      [h \in 1..lh |-> [w \in 1..lw |-> fill[b][c][h][w] % ValMod]]]])]

NoGenerator == [kind |-> "none", seed |-> 0, seeds |-> <<>>]

Generator(seed) == [kind |-> "gen", seed |-> seed, seeds |-> <<>>]

\* a list of generators, one per sample
GeneratorList(seeds) == [kind |-> "list", seed |-> 0, seeds |-> seeds]

\* the prompt_embeds argument when given: one prompt, already embedded
PromptEmbedsArg ==
    [b \in 1..1 |-> [l \in 1..text_encoder_seq_len |-> [d \in 1..text_encoder_text_dim |->
        (l + 2 * d + 4) % ValMod]]]

NoOuts == [img_vae |-> <<>>, img_clip |-> <<>>, text |-> <<>>]

\* which collaborator raises during the call, if any: the denoising network
\* at its call number `pass` of iteration i of run `run`, the scheduler step
\* of that iteration, or the callback when invoked at that iteration
NoFault == [kind |-> "none", run |-> 0, i |-> 0, pass |-> 0]

Fault(kind, run, i, pass) == [kind |-> kind, run |-> run, i |-> i, pass |-> pass]

\* the state of a call that has just been entered with these arguments
\* (height = 0, width = 0 stand for None)
NewCall(mode, image, prompt, height, width, num_inference_steps, guidance_scale, num_samples, generator, prompt_embeds, callback, callback_steps) ==
    [pc |-> "start", mode |-> mode, image |-> image, prompt |-> prompt,
     height |-> height, width |-> width,
     num_inference_steps |-> num_inference_steps, guidance_scale |-> guidance_scale,
     num_samples |-> num_samples, generator |-> generator,
     prompt_embeds_arg |-> prompt_embeds, callback |-> callback,
     callback_steps |-> callback_steps,
     num_images_per_prompt |-> 1,
     negative_prompt |-> NoPrompt, negative_prompt_embeds |-> <<>>,
     prompt_latents |-> <<>>, vae_latents |-> <<>>, clip_latents |-> <<>>,
     fault |-> NoFault,
     batch_size |-> 0, gen_n |-> 0,
     prompt_embeds |-> <<>>, image_vae_latents |-> <<>>, image_clip_latents |-> <<>>,
     run |-> 0, run_mode |-> "", run_prompt_embeds |-> <<>>,
     run_img_vae |-> <<>>, run_img_clip |-> <<>>,
     latents |-> <<>>, timesteps |-> <<>>, i |-> 0, noise_pred |-> <<>>,
     outs |-> NoOuts, images |-> NoImage, texts |-> <<>>, error |-> ""]

\* calls that sweep the modes and the sampling parameters: the number of
\* samples with the default generator and callback, and the generator and the
\* callback for one sample
SamplingCalls ==
    { NewCall(mode, InputImage("pil", 0, 1, unet_img_size, unet_img_size), StrPrompt(1),
              0, 0, S, g, v[1], v[2], <<>>, v[3], v[4]) :
        mode \in Modes \cup {"bad"},
        S \in 1..MaxSteps, g \in 0..MaxGuidance,
        v \in {<<ns, NoGenerator, FALSE, 1>> : ns \in 1..MaxSamples}
              \cup {<<1, gen, cb[1], cb[2]>> :
                      gen \in {NoGenerator} \cup {Generator(sd) : sd \in 1..MaxSeed},
                      cb \in {<<FALSE, 1>>} \cup {<<TRUE, k>> : k \in 1..MaxCallbackSteps}} }

\* calls that sweep the arguments input validation looks at
ValidationCalls ==
    { NewCall(mode, image, prompt, hw[1], hw[2], 1, g, 1, NoGenerator, pe, FALSE, 1) :
        mode \in Modes \cup {"bad"},
        image \in {NoImage, InputImage("pil", 0, 1, 1, MaxLatentSide),
                   InputImage("tensor", 1, MaxBatch, 1, MaxLatentSide)},
        prompt \in {NoPrompt, StrPrompt(1), StrPrompt(2), ListPrompt(<<1, 2>>)},
        hw \in {<<0, 0>>, <<vae_scale_factor, MaxLatentSide * vae_scale_factor>>,
                <<vae_scale_factor + 4, vae_scale_factor>>},
        g \in {0, MaxGuidance},
        pe \in {<<>>, PromptEmbedsArg} }

\* calls that are given a list of generators: its length, the batch size
\* (through the prompt in mode t2i, the image in mode i2t, num_samples
\* otherwise) and num_images_per_prompt vary
GeneratorCalls ==
    { [NewCall(mode, image, prompt, 0, 0, 1, 0, ns,
               GeneratorList([b \in 1..len |-> ((b - 1) % MaxSeed) + 1]), <<>>, FALSE, 1)
          EXCEPT !.num_images_per_prompt = nipp] :
        mode \in Modes,
        image \in {InputImage("pil", 0, 1, unet_img_size, unet_img_size),
                   InputImage("tensor", 1, MaxBatch, unet_img_size, unet_img_size)},
        prompt \in {StrPrompt(1), ListPrompt([b \in 1..MaxBatch |-> b])},
        ns \in 1..MaxSamples, len \in 1..MaxBatch, nipp \in 1..MaxImagesPerPrompt }

\* a latent handed to the call instead of a drawn one
LatentOverride3(shape) == Randn3(MaxSeed + 1, 1, shape)

LatentOverride4(shape) == Randn4(MaxSeed + 1, 1, shape)

\* calls that are given one explicit latent (prompt_latents, vae_latents or
\* clip_latents) of the shape the call requires (extra = 0) or of a last
\* dimension that is larger by one (extra = 1), or both image latents: of
\* the shapes the call requires (extra = 0), or vae_latents of one channel
\* less and clip_latents wider by as many entries (extra = 1)
OverrideCalls ==
    { [NewCall(mode, InputImage("pil", 0, 1, unet_img_size, unet_img_size), StrPrompt(1),
               0, 0, 1, 0, 1, NoGenerator, <<>>, FALSE, 1)
          EXCEPT !.prompt_latents =
                     IF which = "prompt"
                     THEN LatentOverride3(<<1, text_encoder_seq_len, text_encoder_text_dim + extra>>)
                     ELSE <<>>,
                 !.vae_latents =
                     IF which = "vae"
                     THEN LatentOverride4(<<1, num_channels_latents, unet_img_size,
                                            unet_img_size + extra>>)
                     ELSE IF which = "both"
                     THEN LatentOverride4(<<1, num_channels_latents - extra, unet_img_size,
                                            unet_img_size>>)
                     ELSE <<>>,
                 !.clip_latents =
                     IF which = "clip"
                     THEN LatentOverride3(<<1, 1, image_encoder_clip_img_dim + extra>>)
                     ELSE IF which = "both"
                     THEN LatentOverride3(<<1, 1, image_encoder_clip_img_dim
                                                     + extra * unet_img_size * unet_img_size>>)
                     ELSE <<>>] :
        mode \in Modes, which \in {"prompt", "vae", "clip", "both"}, extra \in 0..1 }

\* guided calls with a callback during which one collaborator raises
FaultCalls ==
    { [NewCall(mode, InputImage("pil", 0, 1, unet_img_size, unet_img_size), StrPrompt(1),
               0, 0, S, 1, 1, NoGenerator, <<>>, TRUE, 1)
          EXCEPT !.fault = fault] :
        mode \in Modes, S \in 1..MaxSteps,
        fault \in {Fault("unet", run, i, pass) :
                       run \in 1..2, i \in 0..(MaxSteps - 1), pass \in 1..2}
                  \cup {Fault(kind, run, i, 0) :
                          kind \in {"step", "callback"}, run \in 1..2,
                          i \in 0..(MaxSteps - 1)} }

CallArgs ==
    SamplingCalls \cup ValidationCalls \cup GeneratorCalls \cup OverrideCalls \cup FaultCalls

Raise(c, error) == [c EXCEPT !.pc = "error", !.error = error]

\* check_inputs(prompt, height, width, callback_steps, prompt_embeds=None)
check_inputs(prompt, height, width, callback_steps, prompt_embeds) ==
    IF height % 8 # 0 \/ width % 8 # 0 THEN "ValueError"
    ELSE IF callback_steps <= 0 THEN "ValueError"
    ELSE IF prompt.kind # "none" /\ prompt_embeds # <<>> THEN "ValueError"
    ELSE IF prompt.kind = "none" /\ prompt_embeds = <<>> THEN "ValueError"
    ELSE "ok"

\* mutant: every mode that is not i2t infers the batch size from the prompt
_infer_batch_size_promptFirst(mode, prompt, prompt_embeds, image, num_samples) ==
    IF mode = "i2t"
    THEN IF image.kind = "pil" THEN 1
         ELSE IF image.kind = "tensor" THEN Len(image.data)
         ELSE 0
    ELSE IF prompt.kind = "str" THEN 1
    ELSE IF prompt.kind = "list" THEN Len(prompt.ids)
    ELSE IF prompt_embeds # <<>> THEN Len(prompt_embeds)
    ELSE num_samples

\* _infer_batch_size(mode, prompt, prompt_embeds, image, num_samples);
\* 0 stands for the AttributeError of reading .shape of None
_infer_batch_size(mode, prompt, prompt_embeds, image, num_samples) ==
    IF mode = "t2i"
    THEN IF prompt.kind = "str" THEN 1
         ELSE IF prompt.kind = "list" THEN Len(prompt.ids)
         ELSE Len(prompt_embeds)
    ELSE IF mode = "i2t"
    THEN IF image.kind = "pil" THEN 1
         ELSE IF image.kind = "tensor" THEN Len(image.data)
         ELSE 0
    ELSE num_samples

\* __call__, steps 0 to 2: default height and width, check the inputs (the
\* call passes prompt, height, width and callback_steps only), infer the
\* batch size
CheckInputs ==
    /\ call.pc = "start"
    /\ LET height == IF call.height = 0 THEN unet_img_size * vae_scale_factor ELSE call.height
           width == IF call.width = 0 THEN unet_img_size * vae_scale_factor ELSE call.width
           checked == check_inputs(call.prompt, height, width, call.callback_steps, <<>>)
           batch_size == _infer_batch_size(call.mode, call.prompt, call.prompt_embeds_arg,
                                           call.image, call.num_samples)
           c == [call EXCEPT !.height = height, !.width = width]
       IN  call' = IF checked # "ok" THEN Raise(c, checked)
                   ELSE IF batch_size = 0 THEN Raise(c, "AttributeError")
                   ELSE [c EXCEPT !.pc = "checked", !.batch_size = batch_size]
    /\ UNCHANGED <<codec, scheduler, trace, rng, session>>

\* an entry of the trace that is not a denoising-network call
Event(ev, run, i) == [ev |-> ev, run |-> run, i |-> i]

\* `do_classifier_free_guidance = guidance_scale > 1.0` followed by
\* `do_classifier_free_guidance = False  # TODO`
do_classifier_free_guidance(guidance_scale) == FALSE

\* mutant: the embedding of the negative prompt is put in front of the
\* embedding of the prompt
_encode_prompt_negative(prompt, num_images_per_prompt, do_cfg, negative_prompt, prompt_embeds, negative_prompt_embeds) ==
    LET positive == IF prompt_embeds = <<>> THEN text_encoder(prompt.ids) ELSE prompt_embeds
        negative == IF negative_prompt_embeds # <<>> THEN negative_prompt_embeds
                    ELSE IF negative_prompt.kind # "none" THEN text_encoder(negative_prompt.ids)
                    ELSE <<>>
    IN  negative \o positive

\* _encode_prompt: the prompt is tokenized and encoded unless prompt_embeds
\* is given; num_images_per_prompt, do_classifier_free_guidance and the
\* negative arguments are received and not read
_encode_prompt(prompt, num_images_per_prompt, do_cfg, negative_prompt, prompt_embeds, negative_prompt_embeds) ==
    IF prompt_embeds = <<>> THEN text_encoder(prompt.ids) ELSE prompt_embeds

\* `if isinstance(generator, list) and len(generator) != batch_size: raise ValueError`
\* mutant: only a list that is too short is refused
GeneratorFits_atLeast(generator, batch_size) ==
    generator.kind = "list" => Len(generator.seeds) >= batch_size

GeneratorFits(generator, batch_size) ==
    generator.kind = "list" => Len(generator.seeds) = batch_size

\* randn_tensor(shape, generator=generator): draw n of the stream seeded
\* with `seed` (the generator's, or the global one without a generator);
\* with a list of generators sample b is draw n of generator b
randn_tensor4(shape, generator, seed, n) ==
    IF generator.kind = "list"
    THEN Dense([b \in 1..shape[1] |->
                  Randn4(generator.seeds[b], n, <<1, shape[2], shape[3], shape[4]>>)[1]])
    ELSE Randn4(seed, n, shape)

randn_tensor3(shape, generator, seed, n) ==
    IF generator.kind = "list"
    THEN Dense([b \in 1..shape[1] |->
                  Randn3(generator.seeds[b], n, <<1, shape[2], shape[3]>>)[1]])
    ELSE Randn3(seed, n, shape)

\* prepare_text_latents(batch_size, seq_len, hidden_size, dtype, generator, latents):
\* draw n + 1 of the generator unless latents are given
prepare_text_latents(batch_size, seq_len, hidden_size, generator, seed, n, latents) ==
    Scale3(IF latents = <<>>
           THEN randn_tensor3(<<batch_size, seq_len, hidden_size>>, generator, seed, n + 1)
           ELSE latents,
           init_noise_sigma)

\* prepare_image_vae_latents(batch_size, num_channels_latents, height, width, dtype, generator, latents)
prepare_image_vae_latents(batch_size, channels, height, width, generator, seed, n, latents) ==
    Scale4(IF latents = <<>>
           THEN randn_tensor4(<<batch_size, channels, height \div vae_scale_factor,
                                width \div vae_scale_factor>>, generator, seed, n + 1)
           ELSE latents,
           init_noise_sigma)

\* prepare_image_clip_latents(batch_size, clip_img_dim, dtype, generator, latents)
prepare_image_clip_latents(batch_size, clip_img_dim, generator, seed, n, latents) ==
    Scale3(IF latents = <<>>
           THEN randn_tensor3(<<batch_size, 1, clip_img_dim>>, generator, seed, n + 1)
           ELSE latents,
           init_noise_sigma)

\* encode_image_vae_latents with a list of generators: the samples of the
\* image are encoded one by one, each with a draw of its own
vae_encode_each(image, seed, n) ==
    Dense([b \in 1..Len(image.data) |->
              vae_encode_sample([kind |-> "tensor", data |-> <<image.data[b]>>], seed, n + b - 1)[1]])

\* __call__, steps 3 to 5: the text conditioning is the encoded prompt in
\* mode t2i and a text latent drawn with the generator in every other mode;
\* the image latents are the encoded image in mode i2t and latents drawn with
\* the generator in every other mode.  randn_tensor draws from the generator
\* of the call when one is given and from the global random state otherwise;
\* latent_dist.sample() always draws from the global random state.  Each
\* prepare_* and encode_image_vae_latents first checks the length of a list
\* of generators; what was called before the check that fails stays called.
PrepareLatents ==
    /\ call.pc = "checked"
    /\ LET generator == call.generator
           useGen == generator.kind # "none"
           isList == generator.kind = "list"
           seed == IF generator.kind = "gen" THEN generator.seed ELSE rng.seed
           n0 == IF useGen THEN call.gen_n ELSE rng.n
           image_batch == call.batch_size * call.num_images_per_prompt
           encodes == call.mode = "t2i"
           textFits == encodes \/ GeneratorFits(generator, call.batch_size)
           textDraws == IF encodes \/ call.prompt_latents # <<>> THEN 0 ELSE 1
           vaeDraws1 == IF call.vae_latents # <<>> THEN 0 ELSE 1
           clipDraws == IF call.clip_latents # <<>> THEN 0 ELSE 1
           prompt_embeds ==
               IF encodes
               THEN encode_prefix(_encode_prompt(call.prompt, call.num_images_per_prompt,
                                                 do_classifier_free_guidance(call.guidance_scale),
                                                 call.negative_prompt, call.prompt_embeds_arg,
                                                 call.negative_prompt_embeds))
               ELSE prepare_text_latents(call.batch_size, text_encoder_seq_len,
                                         text_encoder_text_dim, generator, seed, n0,
                                         call.prompt_latents)
           textEvents ==
               IF encodes
               THEN (IF call.prompt_embeds_arg = <<>>
                     THEN <<Event("text_encoder", 0, 0) @@ [ids |-> call.prompt.ids]>>
                     ELSE <<>>) \o <<Event("encode_prefix", 0, 0)>>
               ELSE <<>>
           fromImage == call.mode = "i2t"
           imageFits == GeneratorFits(generator, IF fromImage THEN call.batch_size
                                                 ELSE image_batch)
           \* image[i : i + 1] of a PIL image in encode_image_clip_latents
           clipFails == fromImage /\ isList /\ call.image.kind = "pil"
           globalBefore == IF useGen THEN rng.n ELSE rng.n + textDraws
           vaeDraws == IF isList THEN Len(call.image.data) ELSE 1
           image_vae_latents ==
               IF fromImage
               THEN (IF isList THEN vae_encode_each(call.image, rng.seed, globalBefore + 1)
                     ELSE vae_encode_sample(call.image, rng.seed, globalBefore + 1))
               ELSE prepare_image_vae_latents(image_batch, num_channels_latents,
                                              call.height, call.width,
                                              generator, seed, n0 + textDraws,
                                              call.vae_latents)
           image_clip_latents ==
               IF fromImage
               THEN image_encoder(call.image)
               ELSE prepare_image_clip_latents(image_batch, image_encoder_clip_img_dim,
                                               generator, seed, n0 + textDraws + vaeDraws1,
                                               call.clip_latents)
           imageEvents ==
               IF fromImage
               THEN <<Event("vae_encode", 0, 0), Event("image_encoder", 0, 0)>>
               ELSE <<>>
           srcDraws == textDraws + (IF fromImage THEN 0 ELSE vaeDraws1 + clipDraws)
       IN  IF ~textFits
           THEN /\ call' = Raise(call, "ValueError")
                /\ UNCHANGED <<rng, trace>>
           ELSE IF ~imageFits
           THEN /\ call' = Raise([call EXCEPT !.prompt_embeds = prompt_embeds,
                                              !.gen_n = IF useGen THEN @ + textDraws ELSE @],
                                 "ValueError")
                /\ rng' = [rng EXCEPT !.n = @ + (IF useGen THEN 0 ELSE textDraws)]
                /\ trace' = trace \o textEvents
           ELSE IF clipFails
           THEN /\ call' = Raise([call EXCEPT !.prompt_embeds = prompt_embeds,
                                              !.image_vae_latents = image_vae_latents,
                                              !.gen_n = @ + textDraws],
                                 "TypeError")
                /\ rng' = [rng EXCEPT !.n = @ + vaeDraws]
                /\ trace' = trace \o textEvents \o <<Event("vae_encode", 0, 0)>>
           ELSE /\ call' = [call EXCEPT
                     !.pc = "prepared",
                     !.prompt_embeds = prompt_embeds,
                     !.image_vae_latents = image_vae_latents,
                     !.image_clip_latents = image_clip_latents,
                     !.height = IF fromImage
                                THEN Len(call.image.data[1][1]) * vae_scale_factor ELSE @,
                     !.width = IF fromImage
                               THEN Len(call.image.data[1][1][1]) * vae_scale_factor ELSE @,
                     !.gen_n = IF useGen THEN @ + srcDraws ELSE @]
                /\ rng' = [rng EXCEPT !.n = @ + (IF fromImage THEN vaeDraws ELSE 0)
                                               + (IF useGen THEN 0 ELSE srcDraws)]
                /\ trace' = trace \o textEvents \o imageEvents
    /\ UNCHANGED <<codec, scheduler, session>>

----------------------------------------------------------------------------
(* Denoising loop: UniDiffuserPipeline._denoising_sample_fn *)

\* entry of _denoising_sample_fn(mode, image_vae_latents, image_clip_latents,
\* prompt_embeds, ...) as run number `run` of the call: pack the initial
\* latent and take the timesteps the scheduler has just been set to
BeginRun(c, run, mode, image_vae_latents, image_clip_latents, prompt_embeds, timesteps) ==
    [c EXCEPT
        !.pc = "predict",
        !.run = run,
        !.run_mode = mode,
        !.run_img_vae = image_vae_latents,
        !.run_img_clip = image_clip_latents,
        !.run_prompt_embeds = prompt_embeds,
        !.latents = IF mode = "joint"
                    THEN _combine_joint(image_vae_latents, image_clip_latents, prompt_embeds)
                    ELSE IF mode \in {"t2i", "i"}
                    THEN _combine(image_vae_latents, image_clip_latents)
                    ELSE prompt_embeds,
        !.timesteps = timesteps,
        !.i = 0,
        !.noise_pred = <<>>,
        !.outs = NoOuts]

\* mutant: a mode that is none of the seven is run as t2i
Dispatch_fallsBackToT2i ==
    /\ call.pc = "prepared"
    /\ LET run_mode == IF call.mode = "i2t2i" THEN "i2t"
                       ELSE IF call.mode \in {"i", "t", "i2t", "joint"} THEN call.mode
                       ELSE "t2i"
       IN  /\ scheduler' = set_timesteps(call.num_inference_steps)
           /\ call' = BeginRun(call, 1, run_mode, call.image_vae_latents,
                               call.image_clip_latents, call.prompt_embeds,
                               scheduler'.timesteps)
           /\ trace' = Append(trace, Event("set_timesteps", 1, 0))
    /\ UNCHANGED <<codec, rng, session>>

\* __call__, step 6: the first denoising run of the call
Dispatch ==
    /\ call.pc = "prepared"
    /\ IF call.mode \in {"i", "t", "i2t", "t2i", "joint", "i2t2i", "t2i2t"}
       THEN LET run_mode == IF call.mode = "i2t2i" THEN "i2t"
                            ELSE IF call.mode = "t2i2t" THEN "t2i"
                            ELSE call.mode
            IN  /\ scheduler' = set_timesteps(call.num_inference_steps)
                /\ call' = BeginRun(call, 1, run_mode, call.image_vae_latents,
                                    call.image_clip_latents, call.prompt_embeds,
                                    scheduler'.timesteps)
                /\ trace' = Append(trace, Event("set_timesteps", 1, 0))
       ELSE /\ call' = Raise(call, "ValueError")
            /\ UNCHANGED <<scheduler, trace>>
    /\ UNCHANGED <<codec, rng, session>>

\* `x.split([img_vae_dim, clip_img_dim], axis=1)` and its three-way form,
\* the first statement of get_noise_pred in the modes whose latent is
\* packed: the sections must add up to the length of the packed row
SplitFits(mode, x, height, width) ==
    LET img_vae_dim == num_channels_latents * (height \div vae_scale_factor)
                           * (width \div vae_scale_factor)
        text_dim == text_encoder_seq_len * text_encoder_text_dim
    IN  IF mode = "joint"
        THEN \A b \in 1..Len(x) :
                Len(x[b]) = img_vae_dim + image_encoder_clip_img_dim + text_dim
        ELSE IF mode \in {"t2i", "i"}
        THEN \A b \in 1..Len(x) : Len(x[b]) = img_vae_dim + image_encoder_clip_img_dim
        ELSE TRUE

\* the collaborator `kind` raises at the current iteration of the loop
Raises(kind) ==
    /\ call.fault.kind = kind
    /\ call.fault.run = call.run
    /\ call.fault.i = call.i

\* one loop iteration, first half: noise_pred = self.get_noise_pred(...).
\* An exception of the network leaves get_noise_pred, the loop and the call:
\* the network calls made before it stay made.
NoisePred ==
    /\ call.pc = "predict"
    /\ \E r \in {get_noise_pred(call.run_mode, call.latents, call.timesteps[call.i + 1],
                                 call.run_prompt_embeds, call.run_img_vae, call.run_img_clip,
                                 call.guidance_scale, call.height, call.width,
                                 rng.seed, rng.n)} :
       LET events == [k \in 1..Len(r.calls) |->
                         Event("unet", call.run, call.i)
                             @@ [mode |-> call.run_mode] @@ r.calls[k]]
       IN  IF ~SplitFits(call.run_mode, call.latents, call.height, call.width)
           THEN /\ call' = Raise(call, "ValueError")
                /\ UNCHANGED <<trace, rng>>
           ELSE IF Raises("unet") /\ call.fault.pass <= Len(r.calls)
           THEN /\ trace' = trace \o SubSeq(events, 1, call.fault.pass - 1)
                                \o <<Event("raise", call.run, call.i) @@ [by |-> "unet"]>>
                /\ rng' = [rng EXCEPT !.n = @ + (IF call.fault.pass = 1 THEN 0 ELSE r.draws)]
                /\ call' = Raise(call, "CollaboratorError")
           ELSE /\ trace' = trace \o events
                /\ rng' = [rng EXCEPT !.n = @ + r.draws]
                /\ call' = IF r.ok THEN [call EXCEPT !.pc = "step", !.noise_pred = r.pred]
                           ELSE Raise(call, "NetworkError")
    /\ UNCHANGED <<codec, scheduler, session>>

\* `for i, t in enumerate(timesteps)`: iteration i was the last one
\* mutant: the loop stops one iteration early
LoopDone_early(i, timesteps) == i + 1 >= Len(timesteps) - 1

LoopDone(i, timesteps) == i + 1 = Len(timesteps)

\* `i % callback_steps == 0`: iteration i is one the callback is due at
\* mutant: the callback is due after every callback_steps-th iteration
CallsBack_everyKth(i, callback_steps) == (i + 1) % callback_steps = 0

CallsBack(i, callback_steps) == i % callback_steps = 0

\* `callback(i, t, latents)` is called outside any try: the call goes on
\* when the callback returns and ends with its exception when it raises
\* mutant: an exception of the callback is caught and the loop goes on
AfterCallback_caught(c, raised) == c

AfterCallback(c, raised) == IF raised THEN Raise(c, "CollaboratorError") ELSE c

\* one loop iteration, second half: the scheduler step, then the callback.
\* An exception of the step or of the callback leaves the loop and the call.
SchedulerStep ==
    /\ call.pc = "step"
    /\ LET i == call.i
           t == call.timesteps[i + 1]
           num_warmup_steps == Len(call.timesteps) - call.num_inference_steps * scheduler_order
           latents == IF call.run_mode \in {"i2t", "t"}
                      THEN Step3(scheduler, call.noise_pred, t, call.latents)
                      ELSE Step2(scheduler, call.noise_pred, t, call.latents)
           progress == \/ i = Len(call.timesteps) - 1
                       \/ (i + 1) > num_warmup_steps /\ (i + 1) % scheduler_order = 0
           calls_back == progress /\ call.callback /\ CallsBack(i, call.callback_steps)
           callback_raises == calls_back /\ Raises("callback")
       IN  IF Raises("step")
           THEN /\ trace' = Append(trace, Event("raise", call.run, i) @@ [by |-> "step"])
                /\ call' = Raise(call, "CollaboratorError")
                /\ UNCHANGED scheduler
           ELSE /\ scheduler' = [scheduler EXCEPT !.model_output = call.noise_pred]
                /\ trace' = trace
                     \o <<Event("step", call.run, i) @@
                             [t |-> t, model_output |-> call.noise_pred,
                              sample |-> call.latents, prev_sample |-> latents]>>
                     \o (IF calls_back
                         THEN <<Event("callback", call.run, i) @@ [t |-> t, latents |-> latents]>>
                         ELSE <<>>)
                     \o (IF callback_raises
                         THEN <<Event("raise", call.run, i) @@ [by |-> "callback"]>>
                         ELSE <<>>)
                /\ call' = AfterCallback(
                              [call EXCEPT
                                  !.latents = latents,
                                  !.i = i + 1,
                                  !.pc = IF LoopDone(i, call.timesteps) THEN "loop_end"
                                         ELSE "predict"],
                              callback_raises)
    /\ UNCHANGED <<codec, rng, session>>

\* mutant: after its last iteration the run starts its loop again
EndRun_again ==
    /\ call.pc = "loop_end"
    /\ call' = [call EXCEPT !.pc = "predict", !.i = 0]
    /\ UNCHANGED <<codec, scheduler, trace, rng, session>>

\* after the loop: unpack the final latent and return
EndRun ==
    /\ call.pc = "loop_end"
    /\ call' = [call EXCEPT
            !.pc = "returned",
            !.outs = IF call.run_mode = "joint"
                     THEN _split_joint(call.latents, call.height, call.width)
                     ELSE IF call.run_mode \in {"t2i", "i"}
                     THEN _split(call.latents, call.height, call.width) @@ [text |-> <<>>]
                     ELSE [img_vae |-> <<>>, img_clip |-> <<>>, text |-> call.latents]]
    /\ UNCHANGED <<codec, scheduler, trace, rng, session>>

----------------------------------------------------------------------------
(* __call__, steps 7 and 8: post-processing and the second run of the       *)
(* two-stage modes                                                          *)

\* a single-stage mode: decode what the run returned
PostProcess ==
    /\ call.pc = "returned"
    /\ call.run = 1
    /\ call.mode \in {"joint", "t2i", "i", "i2t", "t"}
    /\ LET image == call.mode \in {"joint", "t2i", "i"}
           text == call.mode \in {"joint", "i2t", "t"}
       IN  /\ call' = IF text /\ ~CaptionsFit(call.outs.text)
                      THEN Raise(call, "DecoderError")
                      ELSE [call EXCEPT
                  !.pc = "done",
                  !.images = IF image THEN decode_image_latents(call.outs.img_vae) ELSE @,
                  !.texts = IF text THEN generate_captions(call.outs.text) ELSE @]
           /\ trace' = trace
                \o (IF image THEN <<Event("vae_decode", 1, 0)>> ELSE <<>>)
                \o (IF text THEN <<Event("generate_captions", 1, 0)>> ELSE <<>>)
    /\ UNCHANGED <<codec, scheduler, rng, session>>

\* mutant: the second run of t2i2t is given the image latents prepared
\* before the first run
SecondStage_prepared ==
    /\ call.pc = "returned"
    /\ call.run = 1
    /\ call.mode \in {"t2i2t", "i2t2i"}
    /\ scheduler' = set_timesteps(call.num_inference_steps)
    /\ call' = IF call.mode = "t2i2t"
               THEN BeginRun(call, 2, "i2t", call.image_vae_latents, call.image_clip_latents,
                             call.prompt_embeds, scheduler'.timesteps)
               ELSE BeginRun(call, 2, "t2i", call.image_vae_latents,
                             call.image_clip_latents, call.outs.text, scheduler'.timesteps)
    /\ trace' = Append(trace, Event("set_timesteps", 2, 0))
    /\ UNCHANGED <<codec, rng, session>>

\* t2i2t runs i2t on the image latents the first run returned, starting from
\* the text latent the first run was conditioned on; i2t2i runs t2i on the
\* text latent the first run returned, starting from the prepared image
\* latents
SecondStage ==
    /\ call.pc = "returned"
    /\ call.run = 1
    /\ call.mode \in {"t2i2t", "i2t2i"}
    /\ scheduler' = set_timesteps(call.num_inference_steps)
    /\ call' = IF call.mode = "t2i2t"
               THEN BeginRun(call, 2, "i2t", call.outs.img_vae, call.outs.img_clip,
                             call.prompt_embeds, scheduler'.timesteps)
               ELSE BeginRun(call, 2, "t2i", call.image_vae_latents,
                             call.image_clip_latents, call.outs.text, scheduler'.timesteps)
    /\ trace' = Append(trace, Event("set_timesteps", 2, 0))
    /\ UNCHANGED <<codec, rng, session>>

\* mutant: the result of the second run is always decoded as an image
Finish_imagesAlways ==
    /\ call.pc = "returned"
    /\ call.run = 2
    /\ call' = [call EXCEPT !.pc = "done",
                            !.images = decode_image_latents(call.outs.img_vae)]
    /\ trace' = Append(trace, Event("vae_decode", 2, 0))
    /\ UNCHANGED <<codec, scheduler, rng, session>>

\* the second run has returned: decode its result
Finish ==
    /\ call.pc = "returned"
    /\ call.run = 2
    /\ call' = IF call.mode = "t2i2t"
               THEN (IF CaptionsFit(call.outs.text)
                     THEN [call EXCEPT !.pc = "done",
                                       !.texts = generate_captions(call.outs.text)]
                     ELSE Raise(call, "DecoderError"))
               ELSE [call EXCEPT !.pc = "done",
                                 !.images = decode_image_latents(call.outs.img_vae)]
    /\ trace' = Append(trace, Event(IF call.mode = "t2i2t" THEN "generate_captions"
                                    ELSE "vae_decode", 2, 0))
    /\ UNCHANGED <<codec, scheduler, rng, session>>

----------------------------------------------------------------------------
(* A single call with arbitrary arguments *)

Init ==
    /\ codec = CodecIdle
    /\ call \in CallArgs
    /\ scheduler = SchedulerIdle
    /\ trace = <<>>
    /\ rng = RngIdle
    /\ session = <<>>

Next ==
    \/ CheckInputs
    \/ PrepareLatents
    \/ Dispatch
    \/ NoisePred
    \/ SchedulerStep
    \/ EndRun
    \/ PostProcess
    \/ SecondStage
    \/ Finish

Spec == Init /\ [][Next]_vars

----------------------------------------------------------------------------
\* C1: unpacking a packed latent returns exactly the tensors that were packed:
\* _split(_combine(a, b), height, width) = (a, b) and
\* _split_joint(_combine_joint(a, b, c), height, width) = (a, b, c), elementwise.
C1_PackUnpackIdentity ==
    /\ codec.pc = "split" =>
          /\ codec.out.img_vae = codec.img_vae
          /\ codec.out.img_clip = codec.img_clip
    /\ codec.pc = "split_joint" =>
          /\ codec.out.img_vae = codec.img_vae
          /\ codec.out.img_clip = codec.img_clip
          /\ codec.out.text = codec.text

\* a joint latent with a batch of two and a non-square image has been unpacked
C1_Witness ==
    /\ codec.pc = "split_joint"
    /\ Len(codec.img_vae) = 2
    /\ codec.height # codec.width
    /\ Len(codec.x[1]) = num_channels_latents * (codec.height \div vae_scale_factor)
                            * (codec.width \div vae_scale_factor)
                         + image_encoder_clip_img_dim
                         + text_encoder_seq_len * text_encoder_text_dim

----------------------------------------------------------------------------
(* Reading the trace *)

IsUnet(e) == e.ev = "unet"

\* the network calls of iteration i of run r, in the order they were made
UnetAt(r, i) == SelectSeq(trace, LAMBDA e : IsUnet(e) /\ e.run = r /\ e.i = i)

\* the network calls of run r
UnetOf(r) == SelectSeq(trace, LAMBDA e : IsUnet(e) /\ e.run = r)

\* the scheduler steps of run r
StepsOf(r) == SelectSeq(trace, LAMBDA e : e.ev = "step" /\ e.run = r)

\* the network call of iteration i of run r made as pass p
PassAt(r, i, p) == SelectSeq(UnetAt(r, i), LAMBDA e : e.pass = p)[1]

\* the slices of a network output that a mode predicts, flattened per sample
\* in the order image-VAE, image-CLIP, text
TargetFlat(mode, x) ==
    IF mode = "joint"
    THEN [b \in 1..Len(x.text) |->
            FlattenCHW(x.img_vae)[b] \o FlattenLD(x.img_clip)[b] \o FlattenLD(x.text)[b]]
    ELSE IF mode \in {"t2i", "i"}
    THEN [b \in 1..Len(x.img_vae) |-> FlattenCHW(x.img_vae)[b] \o FlattenLD(x.img_clip)[b]]
    ELSE FlattenLD(x.text)

\* a latent or prediction of a run, flattened per sample
LatentFlat(mode, x) == IF mode \in {"i2t", "t"} THEN FlattenLD(x) ELSE x

\* the mode of run r of a call in mode `mode`
RunModeOf(mode, r) ==
    IF mode = "t2i2t" THEN (IF r = 1 THEN "t2i" ELSE "i2t")
    ELSE IF mode = "i2t2i" THEN (IF r = 1 THEN "i2t" ELSE "t2i")
    ELSE mode

\* run r of the call has left its loop
RunComplete(r) ==
    \/ r < call.run
    \/ r = call.run /\ call.pc \in {"loop_end", "returned", "done"}

\* the prediction of the current iteration has just been computed
Predicted == call.pc = "step"

----------------------------------------------------------------------------
\* C2: in the modes that apply guidance (t2i, i2t, joint), for a guidance
\* scale g other than 0, the prediction of get_noise_pred is
\* xo + g * (xo - xu) on every entry of the target slices, xo being the
\* output of the conditioned pass and xu that of the unconditioned pass (in
\* joint mode: of the pass made for that slice) of the same iteration.
C2_GuidanceFormula ==
    (Predicted /\ call.run_mode \in {"t2i", "i2t", "joint"} /\ call.guidance_scale # 0) =>
        LET m == call.run_mode
            g == call.guidance_scale
            xo == TargetFlat(m, PassAt(call.run, call.i, "cond").out)
            xu == IF m = "joint"
                  THEN TargetFlat(m,
                          [img_vae |-> PassAt(call.run, call.i, "uncond_text").out.img_vae,
                           img_clip |-> PassAt(call.run, call.i, "uncond_text").out.img_clip,
                           text |-> PassAt(call.run, call.i, "uncond_img").out.text])
                  ELSE TargetFlat(m, PassAt(call.run, call.i, "uncond").out)
            p == LatentFlat(m, call.noise_pred)
        IN  /\ Len(p) = Len(xo)
            /\ \A b \in 1..Len(p) :
                  /\ Len(p[b]) = Len(xo[b])
                  /\ \A k \in 1..Len(p[b]) : p[b][k] = xo[b][k] + g * (xo[b][k] - xu[b][k])

\* a guided t2i prediction at scale 2 of the second iteration, where the two
\* passes disagree
C2_Witness ==
    /\ Predicted
    /\ call.run_mode = "t2i"
    /\ call.guidance_scale = 2
    /\ call.i = 1
    /\ PassAt(call.run, call.i, "cond").out # PassAt(call.run, call.i, "uncond").out

\* C3: with guidance scale 0 one call of the noise predictor calls the
\* network exactly once, as the conditioned pass, and returns exactly that
\* pass's output on the target slices.
C3_ZeroGuidanceOnePass ==
    (Predicted /\ call.guidance_scale = 0) =>
        /\ Len(UnetAt(call.run, call.i)) = 1
        /\ UnetAt(call.run, call.i)[1].pass = "cond"
        /\ LatentFlat(call.run_mode, call.noise_pred)
              = TargetFlat(call.run_mode, UnetAt(call.run, call.i)[1].out)
        /\ \A k \in 1..Len(trace) : IsUnet(trace[k]) => trace[k].pass = "cond"

\* an unguided joint prediction of the second iteration
C3_Witness ==
    /\ Predicted
    /\ call.guidance_scale = 0
    /\ call.run_mode = "joint"
    /\ call.i = 1
    /\ Len(UnetOf(call.run)) = 2

\* C4: in every unconditioned pass the timestep of the conditioning modality
\* is the sentinel N, never the scheduled timestep t, and the target modality
\* keeps t; the single pass of modes t and i gives the absent modality N too.
C4_SentinelTimestep ==
    \A k \in 1..Len(trace) :
        LET e == trace[k] IN
        IsUnet(e) =>
            LET t == call.timesteps[e.i + 1] IN
            /\ t < N
            /\ (e.pass = "uncond" /\ e.mode = "t2i") => (e.t_text = N /\ e.t_img = t)
            /\ (e.pass = "uncond" /\ e.mode = "i2t") => (e.t_img = N /\ e.t_text = t)
            /\ e.pass = "uncond_img" => (e.t_img = N /\ e.t_text = t)
            /\ e.pass = "uncond_text" => (e.t_text = N /\ e.t_img = t)
            /\ e.mode = "t" => (e.t_img = N /\ e.t_text = t)
            /\ e.mode = "i" => (e.t_text = N /\ e.t_img = t)

\* the second run of a two-stage call has made an unconditioned pass in its
\* second iteration
C4_Witness ==
    \E k \in 1..Len(trace) :
        /\ IsUnet(trace[k])
        /\ trace[k].pass = "uncond"
        /\ trace[k].run = 2
        /\ trace[k].i = 1
        /\ trace[k].mode = "i2t"
        /\ trace[k].t_img = N

\* C5: in joint mode with guidance, an iteration makes the conditioned pass,
\* then a pass with the image inputs forced to noise at t_img = N (text latent
\* and t_text = t unchanged) and a pass with the text forced to noise at
\* t_text = N (image latents and t_img = t unchanged); the unconditioned joint
\* output takes the image slices from the second of these and the text slice
\* from the first, in the layout (image-VAE, image-CLIP, text).
C5_JointTwoGuidancePasses ==
    (Predicted /\ call.run_mode = "joint" /\ call.guidance_scale # 0) =>
        LET es == UnetAt(call.run, call.i)
            t == call.timesteps[call.i + 1]
            g == call.guidance_scale
        IN  /\ Len(es) = 3
            /\ es[1].pass = "cond" /\ es[1].t_img = t /\ es[1].t_text = t
            /\ es[2].pass = "uncond_img"
            /\ es[2].src_vae.kind = "randn" /\ es[2].src_clip.kind = "randn"
            /\ es[2].t_img = N
            /\ es[2].text = es[1].text /\ es[2].t_text = t
            /\ es[3].pass = "uncond_text"
            /\ es[3].src_text.kind = "randn"
            /\ es[3].t_text = N
            /\ es[3].img_vae = es[1].img_vae /\ es[3].img_clip = es[1].img_clip
            /\ es[3].t_img = t
            /\ \A b \in 1..Len(call.noise_pred) :
                  LET xo == FlattenCHW(es[1].out.img_vae)[b] \o FlattenLD(es[1].out.img_clip)[b]
                              \o FlattenLD(es[1].out.text)[b]
                      xu == FlattenCHW(es[3].out.img_vae)[b] \o FlattenLD(es[3].out.img_clip)[b]
                              \o FlattenLD(es[2].out.text)[b]
                  IN  call.noise_pred[b] = [k \in 1..Len(xo) |-> xo[k] + g * (xo[k] - xu[k])]

\* a guided joint prediction for a batch of two in which the two
\* unconditioned passes return different image outputs
C5_Witness ==
    /\ Predicted
    /\ call.run_mode = "joint"
    /\ call.guidance_scale = 1
    /\ call.i = 1
    /\ Len(call.noise_pred) = 2
    /\ UnetAt(call.run, call.i)[2].out.img_vae # UnetAt(call.run, call.i)[3].out.img_vae

\* the draws of paddle.randn a network call was given
DrawsOf(e) == {e.src_vae.n, e.src_clip.n, e.src_text.n} \ {0}

\* the inputs of the modality that pass e forces to noise
NoisedImage(e) == e.pass = "uncond_img" \/ (e.pass = "uncond" /\ e.mode = "i2t")

NoisedText(e) == e.pass = "uncond_text" \/ (e.pass = "uncond" /\ e.mode = "t2i")

\* C6: in every unconditioned guidance pass the content of the conditioning
\* modality is noise drawn for that pass: it is a draw of paddle.randn, not
\* the conditioning content nor the latent of the conditioned pass, and the
\* draw is later than every draw given to an earlier network call.
C6_FreshNoise ==
    \A k \in 1..Len(trace) :
        LET e == trace[k] IN
        (IsUnet(e) /\ e.pass # "cond") =>
            /\ NoisedImage(e) \/ NoisedText(e)
            /\ NoisedImage(e) =>
                  /\ e.src_vae.kind = "randn" /\ e.src_clip.kind = "randn"
                  /\ e.src_vae.n # e.src_clip.n
                  /\ e.img_vae = Randn4(rng.seed, e.src_vae.n, Shape4(e.img_vae))
                  /\ e.img_clip = Randn3(rng.seed, e.src_clip.n, Shape3(e.img_clip))
            /\ NoisedText(e) =>
                  /\ e.src_text.kind = "randn"
                  /\ e.text = Randn3(rng.seed, e.src_text.n, Shape3(e.text))
            /\ \A n \in DrawsOf(e) :
                  /\ n <= rng.n
                  /\ \A j \in 1..(k - 1) :
                        IsUnet(trace[j]) => \A m \in DrawsOf(trace[j]) : m < n

\* two iterations of a guided t2i run have each been given their own draw
C6_Witness ==
    \E j, k \in 1..Len(trace) :
        /\ j < k
        /\ IsUnet(trace[j]) /\ IsUnet(trace[k])
        /\ trace[j].pass = "uncond" /\ trace[k].pass = "uncond"
        /\ trace[j].mode = "t2i" /\ trace[k].mode = "t2i"
        /\ trace[j].i = 0 /\ trace[k].i = 1
        /\ trace[j].src_text.n < trace[k].src_text.n

----------------------------------------------------------------------------
\* the number of network calls one iteration makes
PassesPerStep(mode, g) ==
    IF g = 0 \/ mode \in {"t", "i"} THEN 1
    ELSE IF mode = "joint" THEN 3
    ELSE 2

\* C7 as claimed: a denoising run of S steps calls the network S times at
\* guidance scale 0 and 2S times at a guidance scale above 0, in every mode.
C7_Original ==
    \A r \in 1..2 :
        RunComplete(r) =>
            Len(UnetOf(r)) = IF call.guidance_scale = 0
                             THEN call.num_inference_steps
                             ELSE 2 * call.num_inference_steps

\* C7 as amended: a denoising run of S steps calls the network S times at
\* guidance scale 0 and, whatever the scale, in modes t and i; 2S times in
\* modes t2i and i2t at a non-zero scale; 3S times in joint mode at a
\* non-zero scale.
C7_NetworkCallCount ==
    \A r \in 1..2 :
        RunComplete(r) =>
            Len(UnetOf(r)) = call.num_inference_steps
                               * PassesPerStep(RunModeOf(call.mode, r), call.guidance_scale)

\* a guided joint run of two steps has ended after six network calls
C7_Witness ==
    /\ RunComplete(1)
    /\ call.num_inference_steps = 2
    /\ call.guidance_scale = 2
    /\ call.mode = "joint"
    /\ Len(UnetOf(1)) = 6

\* C8: a denoising run of S steps calls scheduler.step exactly S times, once
\* per iteration, after the network calls of that iteration and before those
\* of the next; the step is given the prediction and the latent of its
\* iteration and the next prediction is given the latent the step returned.
C8_StepsInterleaved ==
    /\ \A r \in 1..2 : RunComplete(r) => Len(StepsOf(r)) = call.num_inference_steps
    /\ \A k \in 1..Len(trace) :
          LET e == trace[k] IN
          /\ e.ev = "step" =>
                /\ \E j \in 1..(k - 1) :
                      IsUnet(trace[j]) /\ trace[j].run = e.run /\ trace[j].i = e.i
                /\ \A j \in 1..Len(trace) :
                      /\ (IsUnet(trace[j]) /\ trace[j].run = e.run /\ trace[j].i <= e.i) => j < k
                      /\ (IsUnet(trace[j]) /\ trace[j].run = e.run /\ trace[j].i > e.i) => j > k
                      /\ (trace[j].ev = "step" /\ trace[j].run = e.run /\ trace[j].i = e.i)
                            => j = k
                /\ LatentFlat(PassAt(e.run, e.i, "cond").mode, e.sample)
                      = TargetFlat(PassAt(e.run, e.i, "cond").mode,
                                   [img_vae |-> PassAt(e.run, e.i, "cond").img_vae,
                                    img_clip |-> PassAt(e.run, e.i, "cond").img_clip,
                                    text |-> PassAt(e.run, e.i, "cond").text])
          /\ (IsUnet(e) /\ e.i > 0) =>
                \E j \in 1..(k - 1) :
                    /\ trace[j].ev = "step" /\ trace[j].run = e.run /\ trace[j].i = e.i - 1
                    /\ e.pass = "cond" =>
                          LatentFlat(e.mode, trace[j].prev_sample)
                             = TargetFlat(e.mode, [img_vae |-> e.img_vae,
                                                   img_clip |-> e.img_clip,
                                                   text |-> e.text])
    /\ Predicted =>
          \A j \in 1..Len(trace) :
              ~(trace[j].ev = "step" /\ trace[j].run = call.run /\ trace[j].i = call.i)

\* a run of two steps has ended: prediction, step, prediction, step
C8_Witness ==
    /\ call.pc = "loop_end"
    /\ call.run_mode = "joint"
    /\ call.num_inference_steps = 2
    /\ call.guidance_scale = 0
    /\ Len(StepsOf(1)) = 2
    /\ Len(UnetOf(1)) = 2

\* the set_timesteps entries of the trace: one per denoising run begun
RunsBegun == SelectSeq(trace, LAMBDA e : e.ev = "set_timesteps")

\* the last scheduler step of run r
LastStep(r) == StepsOf(r)[Len(StepsOf(r))]

\* C9: t2i2t makes two denoising runs, t2i and then i2t, the second
\* conditioned on the image-VAE and image-CLIP latents the first returned;
\* i2t2i makes an i2t run and then a t2i run conditioned on the text latent
\* the first returned; every other mode makes exactly one run.
C9_RunSequence ==
    /\ Len(RunsBegun) = call.run
    /\ \A k \in 1..Len(RunsBegun) : RunsBegun[k].run = k
    /\ call.run = 2 => call.mode \in {"t2i2t", "i2t2i"}
    /\ call.pc = "done" => call.run = IF call.mode \in {"t2i2t", "i2t2i"} THEN 2 ELSE 1
    /\ \A k \in 1..Len(trace) :
          LET e == trace[k] IN
          IsUnet(e) =>
              /\ e.mode = RunModeOf(call.mode, e.run)
              /\ e.run = 2 => RunComplete(1)
              /\ \A j \in 1..(k - 1) : IsUnet(trace[j]) => trace[j].run <= e.run
              /\ (e.run = 2 /\ e.pass = "cond" /\ call.mode = "t2i2t") =>
                    /\ e.src_vae = FromFixed /\ e.src_clip = FromFixed
                    /\ [b \in 1..Len(e.img_vae) |->
                            FlattenCHW(e.img_vae)[b] \o FlattenLD(e.img_clip)[b]]
                          = LastStep(1).prev_sample
              /\ (e.run = 2 /\ e.pass = "cond" /\ call.mode = "i2t2i") =>
                    /\ e.src_text = FromFixed
                    /\ e.text = LastStep(1).prev_sample

\* a t2i2t call has finished its second run, of two steps
C9_Witness ==
    /\ call.pc = "done"
    /\ call.mode = "t2i2t"
    /\ call.num_inference_steps = 2
    /\ Len(UnetOf(2)) >= 2
    /\ call.texts # <<>>

----------------------------------------------------------------------------
(* A session of three calls on one pipeline: a call in mode t2i2t, then a    *)
(* call in mode t2i on the same prompt, then a call in mode i2t on the image *)
(* the t2i call returned.  Every call is given a generator seeded afresh     *)
(* with the same seed, and the global random state is re-seeded before it.   *)

\* prompts of a session: 1..MaxPrompt
MaxPrompt == 2

\* what the network is presented with in one call of it
NetInputs(e) ==
    [img_vae |-> e.img_vae, img_clip |-> e.img_clip, text |-> e.text,
     t_img |-> e.t_img, t_text |-> e.t_text, data_type |-> e.data_type]

\* the network inputs of a whole pipeline call, in order
NetInputsOf(tr) ==
    LET calls == SelectSeq(tr, IsUnet)
    IN  [k \in 1..Len(calls) |-> NetInputs(calls[k])]

\* what is kept of a finished call
Finished(c, tr) ==
    [mode |-> c.mode, images |-> c.images, texts |-> c.texts, unet |-> NetInputsOf(tr)]

\* the pipeline call number `stage` of the session; the image-to-text call
\* is given the first image of the output of the call before it, and a
\* prompt because check_inputs demands one
SessionCall(stage, prompt, num_inference_steps, guidance_scale, seed, images) ==
    NewCall(IF stage = 1 THEN "t2i2t" ELSE IF stage = 2 THEN "t2i" ELSE "i2t",
            IF stage = 3 THEN [kind |-> "pil", data |-> <<images.data[1]>>] ELSE NoImage,
            prompt, 0, 0, num_inference_steps, guidance_scale, 1,
            Generator(seed), <<>>, FALSE, 1)

SessionInit ==
    /\ codec = CodecIdle
    /\ \E p \in 1..MaxPrompt, S \in 1..MaxSteps, g \in 0..MaxGuidance, sd \in 1..MaxSeed :
          call = SessionCall(1, StrPrompt(p), S, g, sd, NoImage)
    /\ scheduler = SchedulerIdle
    /\ trace = <<>>
    /\ rng = RngIdle
    /\ session = [stage |-> 1, archive |-> <<>>]

\* the call has returned: keep its output and make the next call of the
\* session on the same pipeline, whose scheduler is the same object
NextCall ==
    /\ call.pc = "done"
    /\ session.stage < 3
    /\ session' = [stage |-> session.stage + 1,
                   archive |-> Append(session.archive, Finished(call, trace))]
    /\ call' = SessionCall(session.stage + 1, call.prompt, call.num_inference_steps,
                           call.guidance_scale, call.generator.seed, call.images)
    /\ trace' = <<>>
    /\ rng' = RngIdle
    /\ UNCHANGED <<codec, scheduler>>

SessionNext ==
    \/ CheckInputs
    \/ PrepareLatents
    \/ Dispatch
    \/ NoisePred
    \/ SchedulerStep
    \/ EndRun
    \/ PostProcess
    \/ SecondStage
    \/ Finish
    \/ NextCall

SessionSpec == SessionInit /\ [][SessionNext]_vars

\* C10: with a fixed seed and a deterministic network, one call in mode
\* t2i2t returns the same texts, and presents the same inputs to the network
\* in the same order, as a call in mode t2i on the same prompt followed by a
\* call in mode i2t on the image the t2i call returned.
C10_T2i2tEqualsManualChain ==
    (session.stage = 3 /\ call.pc = "done") =>
        /\ session.archive[1].texts = call.texts
        /\ session.archive[1].unet = session.archive[2].unet \o NetInputsOf(trace)

----------------------------------------------------------------------------
\* a denoising run of the call has been entered
RunEntered == call.pc \in {"predict", "step", "loop_end", "returned", "done"}

\* the trace holds an entry of kind ev
Happened(ev) == \E k \in 1..Len(trace) : trace[k].ev = ev

\* C11: when a prompt is supplied in modes t2i and t2i2t, the text latent the
\* first run is conditioned on is encode_prefix(text_encoder(prompt)); when
\* an image is supplied in modes i2t and i2t2i, the image latents the first
\* run is conditioned on are the VAE encoding and the vision-encoder
\* embedding of that image; noise is used only for a modality without input.
C11_ConditioningIsEncodedInput ==
    (RunEntered /\ call.prompt_embeds_arg = <<>>) =>
        /\ (call.mode \in {"t2i", "t2i2t"} /\ call.prompt.kind # "none") =>
              /\ call.prompt_embeds = encode_prefix(text_encoder(call.prompt.ids))
              /\ Happened("text_encoder")
        /\ (call.mode \in {"i2t", "i2t2i"} /\ call.image.kind # "none") =>
              /\ call.image_clip_latents = image_encoder(call.image)
              /\ Happened("vae_encode")
              /\ Happened("image_encoder")

----------------------------------------------------------------------------
\* the iterations of run r at which the callback was invoked, in order
CallbacksOf(r) == SelectSeq(trace, LAMBDA e : e.ev = "callback" /\ e.run = r)

----------------------------------------------------------------------------
\* input validation has run and has refused the call
Refused == call.pc = "error" /\ call.batch_size = 0

\* input validation has run and has let the call through
Accepted == call.pc # "start" /\ ~Refused

\* the height and width of the call pass the size test of check_inputs
SizeValid == call.height % 8 = 0 /\ call.width % 8 = 0

\* C13: in mode t2i input validation accepts the call if and only if exactly
\* one of prompt and prompt_embeds is supplied; a refused call has made no
\* encoder or network call.
C13_PromptXorEmbeds ==
    (call.mode = "t2i" /\ call.pc # "start" /\ SizeValid) =>
        LET exactlyOne == (call.prompt.kind # "none") # (call.prompt_embeds_arg # <<>>)
        IN  /\ exactlyOne <=> Accepted
            /\ Refused => trace = <<>>

\* C14: a call in mode i2t with an input image, prompt = None and no
\* prompt_embeds passes input validation, runs the denoising loop and
\* returns a populated text list: it never ends in an error.
C14_I2tNeedsNoPrompt ==
    (/\ call.mode = "i2t"
     /\ call.image.kind # "none"
     /\ call.prompt.kind = "none"
     /\ call.prompt_embeds_arg = <<>>
     /\ call.pc # "start"
     /\ SizeValid) =>
        /\ Accepted
        /\ call.pc # "error"
        /\ call.pc = "done" => call.texts # <<>>

----------------------------------------------------------------------------
(* The size test of a pipeline built on an arbitrary VAE: __init__ derives  *)
(* vae_scale_factor from the VAE's configuration, __call__ defaults and     *)
(* checks height and width and then sizes the image latent.  (The other     *)
(* specifications fix the factor at 8, the value of the released VAE.)      *)

\* len(self.vae.config.block_out_channels) ranges over 1..MaxBlocks
MaxBlocks == 5

\* explicit heights and widths are 4, 8, ..., 4 * MaxSizeUnits
MaxSizeUnits == 4

\* self.unet.config.img_size of such a pipeline ranges over 1..MaxImgSize
MaxImgSize == 2

RECURSIVE Pow2(_)
Pow2(n) == IF n = 0 THEN 1 ELSE 2 * Pow2(n - 1)

\* a pipeline on a VAE of `blocks` blocks, about to be called with these
\* height and width (0 stands for None)
ConfigInit ==
    /\ codec = CodecIdle
    /\ call = CallIdle
    /\ scheduler = SchedulerIdle
    /\ trace = <<>>
    /\ rng = RngIdle
    /\ \E blocks \in 1..MaxBlocks, img_size \in 1..MaxImgSize,
          height \in {0} \cup {4 * j : j \in 1..MaxSizeUnits},
          width \in {0} \cup {4 * j : j \in 1..MaxSizeUnits} :
          session = [pc |-> "new", block_out_channels |-> blocks, img_size |-> img_size,
                     vae_scale_factor |-> 0, height |-> height, width |-> width,
                     latent_height |-> 0, latent_width |-> 0, error |-> ""]

\* __init__: self.vae_scale_factor = 2 ** (len(self.vae.config.block_out_channels) - 1)
Construct ==
    /\ session.pc = "new"
    /\ session' = [session EXCEPT !.pc = "built",
                                  !.vae_scale_factor = Pow2(session.block_out_channels - 1)]
    /\ UNCHANGED <<codec, call, scheduler, trace, rng>>

\* __call__, steps 0 and 1: default height and width, then check_inputs
ValidateSize ==
    /\ session.pc = "built"
    /\ LET height == IF session.height = 0
                     THEN session.img_size * session.vae_scale_factor ELSE session.height
           width == IF session.width = 0
                    THEN session.img_size * session.vae_scale_factor ELSE session.width
           checked == check_inputs(StrPrompt(1), height, width, 1, <<>>)
       IN  session' = [session EXCEPT !.height = height, !.width = width,
                                      !.pc = IF checked = "ok" THEN "checked" ELSE "error",
                                      !.error = IF checked = "ok" THEN "" ELSE checked]
    /\ UNCHANGED <<codec, call, scheduler, trace, rng>>

\* prepare_image_vae_latents: shape = (batch_size, num_channels_latents,
\* height // self.vae_scale_factor, width // self.vae_scale_factor)
PrepareShape ==
    /\ session.pc = "checked"
    /\ session' = [session EXCEPT !.pc = "prepared",
                                  !.latent_height = session.height \div session.vae_scale_factor,
                                  !.latent_width = session.width \div session.vae_scale_factor]
    /\ UNCHANGED <<codec, call, scheduler, trace, rng>>

ConfigNext == Construct \/ ValidateSize \/ PrepareShape

ConfigSpec == ConfigInit /\ [][ConfigNext]_vars

\* C15: if the height or the width of the call, after defaulting, is not
\* divisible by vae_scale_factor, the call fails at validation, before
\* anything is prepared or run.
C15_SizeDivisibleByScaleFactor ==
    (/\ session.pc \in {"checked", "prepared", "error"}
     /\ (session.height % session.vae_scale_factor # 0
            \/ session.width % session.vae_scale_factor # 0)) =>
        session.pc = "error"

----------------------------------------------------------------------------
\* the batch size a list of generators is measured against: the number of
\* image latents prepared, or of images encoded in mode i2t
EffectiveBatch ==
    IF call.mode = "i2t" THEN call.batch_size
    ELSE call.batch_size * call.num_images_per_prompt

\* the call was given a list of generators of the wrong length and has
\* passed input validation and latent preparation
WrongGeneratorCount ==
    /\ call.generator.kind = "list"
    /\ Len(call.generator.seeds) # EffectiveBatch
    /\ call.batch_size > 0
    /\ call.pc # "checked"

\* C16 as stated: a list of generators whose length differs from the
\* effective batch size makes the call fail with a configuration error
\* before any network call, the text encoder included.
C16_Original ==
    WrongGeneratorCount =>
        /\ call.pc = "error"
        /\ call.error = "ValueError"
        /\ trace = <<>>

\* C16, amended: such a call fails with ValueError at latent preparation,
\* before any image encoder, VAE, denoising network or scheduler is called;
\* in mode t2i the prompt has been through the text encoder and the
\* down-projection by then, in every other mode nothing has been called.
C16_GeneratorCountChecked ==
    WrongGeneratorCount =>
        /\ call.pc = "error"
        /\ call.error = "ValueError"
        /\ \A k \in 1..Len(trace) : trace[k].ev \in {"text_encoder", "encode_prefix"}
        /\ call.mode # "t2i" => trace = <<>>
        /\ call.mode = "t2i" => Happened("text_encoder")

\* a t2i call with a list of generators of the wrong length has failed
\* after its prompt was encoded
C16_Witness ==
    /\ WrongGeneratorCount
    /\ call.mode = "t2i"
    /\ call.pc = "error"
    /\ Happened("encode_prefix")

----------------------------------------------------------------------------
\* the call was handed a latent that latent preparation takes (prompt_latents
\* outside mode t2i, vae_latents and clip_latents outside mode i2t) and whose
\* shape is not the one the batch size, height and width of the call require
WrongOverride ==
    LET image_batch == call.batch_size * call.num_images_per_prompt IN
    /\ call.batch_size > 0
    /\ \/ /\ call.mode # "t2i"
          /\ call.prompt_latents # <<>>
          /\ Shape3(call.prompt_latents)
                # <<call.batch_size, text_encoder_seq_len, text_encoder_text_dim>>
       \/ /\ call.mode # "i2t"
          /\ call.vae_latents # <<>>
          /\ Shape4(call.vae_latents)
                # <<image_batch, num_channels_latents, call.height \div vae_scale_factor,
                    call.width \div vae_scale_factor>>
       \/ /\ call.mode # "i2t"
          /\ call.clip_latents # <<>>
          /\ Shape3(call.clip_latents) # <<image_batch, 1, image_encoder_clip_img_dim>>

\* C17: a call handed a latent of the wrong shape fails with a shape error
\* at latent preparation, where the latent is taken, and makes no call of
\* the denoising network.
C17_OverrideShapeChecked ==
    (WrongOverride /\ call.pc \notin {"start", "checked"}) =>
        /\ call.pc = "error"
        /\ call.run = 0
        /\ ~Happened("unet")

----------------------------------------------------------------------------
\* C18: a call whose mode is none of joint, t2i, i2t, t, i, t2i2t, i2t2i
\* fails with an error (ValueError): it never sets up the scheduler, calls
\* the denoising network or steps the scheduler, and returns no output.
C18_InvalidMode ==
    call.mode \notin Modes =>
        /\ call.pc \in {"start", "checked", "prepared", "error"}
        /\ call.pc = "error" => call.error = "ValueError"
        /\ call.run = 0
        /\ ~Happened("set_timesteps")
        /\ ~Happened("unet")
        /\ ~Happened("step")
        /\ call.images = NoImage
        /\ call.texts = <<>>

\* a call of an unknown mode has passed validation and latent preparation
\* and has been refused at the mode dispatch
C18_Witness ==
    /\ call.mode \notin Modes
    /\ call.pc = "error"
    /\ call.error = "ValueError"
    /\ call.batch_size > 0
    /\ call.prompt_embeds # <<>>

----------------------------------------------------------------------------
\* C19: when the denoising network, the scheduler step or the callback
\* raises at an iteration of a denoising loop, the call ends with that
\* error: nothing is called after it (no retry, no later iteration, no
\* second run, no decoder) and no image or text is returned.
C19_ErrorsPropagate ==
    /\ \A k \in 1..Len(trace) :
          trace[k].ev = "raise" =>
              /\ k = Len(trace)
              /\ call.pc = "error"
              /\ call.error = "CollaboratorError"
              /\ call.run = trace[k].run
    /\ call.pc = "error" =>
          /\ call.images = NoImage
          /\ call.texts = <<>>

\* the callback has raised at the first iteration of the first run of a
\* two-stage call of more than one iteration
C19_Witness ==
    /\ call.pc = "error"
    /\ call.mode \in {"t2i2t", "i2t2i"}
    /\ call.num_inference_steps > 1
    /\ Len(trace) > 0
    /\ trace[Len(trace)].ev = "raise"
    /\ trace[Len(trace)].by = "callback"
    /\ trace[Len(trace)].run = 1
    /\ trace[Len(trace)].i = 0

----------------------------------------------------------------------------
\* C20: a call that completes returns images, one per sample and decoded by
\* the VAE decoder from the image latent of its last run, exactly in modes
\* joint, t2i, i and i2t2i, and texts, one per sample and decoded by the
\* caption generator from the text latent of its last run, exactly in modes
\* joint, i2t, t and t2i2t; so at least one of the two is populated.
ImageModes == {"joint", "t2i", "i", "i2t2i"}

TextModes == {"joint", "i2t", "t", "t2i2t"}

C20_OutputsByMode ==
    call.pc = "done" =>
        /\ call.mode \in Modes
        /\ (call.images # NoImage) <=> (call.mode \in ImageModes)
        /\ (call.texts # <<>>) <=> (call.mode \in TextModes)
        /\ call.images # NoImage \/ call.texts # <<>>
        /\ call.mode \in ImageModes =>
              /\ call.images = decode_image_latents(call.outs.img_vae)
              /\ Len(call.images.data) = call.batch_size
              /\ Happened("vae_decode")
        /\ call.mode \notin ImageModes => ~Happened("vae_decode")
        /\ call.mode \in TextModes =>
              /\ call.texts = generate_captions(call.outs.text)
              /\ Len(call.texts) = call.batch_size
              /\ Happened("generate_captions")
        /\ call.mode \notin TextModes => ~Happened("generate_captions")

\* a t2i2t call has completed with texts only
C20_Witness ==
    /\ call.pc = "done"
    /\ call.mode = "t2i2t"
    /\ call.run = 2
    /\ Len(call.texts) = call.batch_size
    /\ call.images = NoImage
    /\ trace[Len(trace)].ev = "generate_captions"

----------------------------------------------------------------------------
(* _infer_batch_size on arbitrary arguments *)

BatchInit ==
    /\ codec = CodecIdle
    /\ call = CallIdle
    /\ scheduler = SchedulerIdle
    /\ trace = <<>>
    /\ rng = RngIdle
    /\ \E mode \in Modes,
          prompt \in {NoPrompt, StrPrompt(1), ListPrompt(<<1>>), ListPrompt(<<1, 2>>),
                      ListPrompt(<<2, 1, 2>>)},
          B \in 0..(MaxBatch + 1),
          image \in {NoImage, InputImage("pil", 0, 1, 1, 1)}
                        \cup {InputImage("tensor", 1, n, 1, 1) : n \in 1..(MaxBatch + 1)},
          num_samples \in 1..(MaxSamples + 2) :
          session = [pc |-> "args", mode |-> mode, prompt |-> prompt,
                     \* no prompt_embeds, or one of batch dimension B
                     prompt_embeds |->
                         Dense([b \in 1..B |-> [l \in 1..text_encoder_seq_len |->
                                   [d \in 1..text_encoder_text_dim |-> (b + l + 2 * d) % ValMod]]]),
                     image |-> image, num_samples |-> num_samples, batch_size |-> 0]

\* __call__, step 2: batch_size = self._infer_batch_size(mode, prompt,
\* prompt_embeds, image, num_samples)
InferBatchSize ==
    /\ session.pc = "args"
    /\ session' = [session EXCEPT
                      !.pc = "inferred",
                      !.batch_size = _infer_batch_size(session.mode, session.prompt,
                                                       session.prompt_embeds, session.image,
                                                       session.num_samples)]
    /\ UNCHANGED <<codec, call, scheduler, trace, rng>>

BatchNext == InferBatchSize

BatchSpec == BatchInit /\ [][BatchNext]_vars

\* C21: the inferred batch size is, in mode t2i, 1 for a string prompt, the
\* length of a list prompt and otherwise the batch dimension of
\* prompt_embeds; in mode i2t, 1 for a PIL image and the batch dimension of
\* a tensor image; in every other mode num_samples, whatever prompt and
\* image are given.
C21_BatchSizeInferred ==
    session.pc = "inferred" =>
        /\ (session.mode = "t2i" /\ session.prompt.kind = "str") => session.batch_size = 1
        /\ (session.mode = "t2i" /\ session.prompt.kind = "list") =>
              session.batch_size = Len(session.prompt.ids)
        /\ (session.mode = "t2i" /\ session.prompt.kind = "none"
               /\ session.prompt_embeds # <<>>) =>
              session.batch_size = Len(session.prompt_embeds)
        /\ (session.mode = "i2t" /\ session.image.kind = "pil") => session.batch_size = 1
        /\ (session.mode = "i2t" /\ session.image.kind = "tensor") =>
              session.batch_size = Len(session.image.data)
        /\ session.mode \notin {"t2i", "i2t"} => session.batch_size = session.num_samples

\* in a mode other than t2i and i2t, the batch size was inferred as
\* num_samples although a list prompt, prompt_embeds and a tensor image of
\* other sizes were given
C21_Witness ==
    /\ session.pc = "inferred"
    /\ session.mode = "t2i2t"
    /\ session.prompt.kind = "list"
    /\ session.prompt_embeds # <<>>
    /\ session.image.kind = "tensor"
    /\ session.batch_size = session.num_samples
    /\ session.batch_size # Len(session.prompt.ids)
    /\ session.batch_size # Len(session.prompt_embeds)
    /\ session.batch_size # Len(session.image.data)

----------------------------------------------------------------------------
\* C22: in a run of mode joint, t2i or i, the packed latent has at loop
\* entry, at every iteration and at the final unpack the layout of its mode,
\* height and width: the image-VAE block of C*(height/scale)*(width/scale)
\* entries, then the image-CLIP block of clip_dim entries, then, in mode
\* joint, the text block of seq_len*text_dim entries.  The pack at loop
\* entry, the unpack that feeds the network in every iteration, the pack of
\* the noise prediction and the final unpack all use it.
C22_OneLayout ==
    (/\ call.pc \in {"predict", "step", "loop_end", "returned"}
     /\ call.run_mode \in {"joint", "t2i", "i"}) =>
        LET \* the feature-axis layout of the packed latent of the mode: the
            \* sizes of its blocks, in order
            img_vae_dim == num_channels_latents * (call.height \div vae_scale_factor)
                               * (call.width \div vae_scale_factor)
            layout == IF call.run_mode = "joint"
                      THEN <<img_vae_dim, image_encoder_clip_img_dim,
                             text_encoder_seq_len * text_encoder_text_dim>>
                      ELSE <<img_vae_dim, image_encoder_clip_img_dim>>
            \* x is packed from these tensors in the layout
            Packed(x, lay, img_vae, img_clip, text) ==
                /\ \A b \in 1..Len(x) : Len(x[b]) = SumSeq(lay)
                /\ FlattenCHW(img_vae) = SplitBlock(x, 0, lay[1])
                /\ FlattenLD(img_clip) = SplitBlock(x, lay[1], lay[2])
                /\ Len(lay) = 3 => FlattenLD(text) = SplitBlock(x, lay[1] + lay[2], lay[3])
            \* the first network call of the iteration the call is in
            FirstPass ==
                CHOOSE k \in 1..Len(trace) :
                    /\ trace[k].ev = "unet" /\ trace[k].run = call.run /\ trace[k].i = call.i
                    /\ \A j \in 1..(k - 1) :
                          ~(trace[j].ev = "unet" /\ trace[j].run = call.run
                            /\ trace[j].i = call.i)
        IN  /\ \A b \in 1..Len(call.latents) : Len(call.latents[b]) = SumSeq(layout)
            /\ (call.pc = "predict" /\ call.i = 0) =>
                  Packed(call.latents, layout, call.run_img_vae, call.run_img_clip,
                         call.run_prompt_embeds)
            /\ call.pc = "step" =>
                  /\ Packed(call.latents, layout, trace[FirstPass].img_vae,
                            trace[FirstPass].img_clip, trace[FirstPass].text)
                  /\ \A b \in 1..Len(call.noise_pred) :
                        Len(call.noise_pred[b]) = SumSeq(layout)
            /\ call.pc = "returned" =>
                  Packed(call.latents, layout, call.outs.img_vae, call.outs.img_clip,
                         call.outs.text)

----------------------------------------------------------------------------
(* Two calls on one pipeline object.  The call named "A" first runs alone,  *)
(* then again with its steps interleaved with those of a call "B"; both     *)
(* use the scheduler registered in __init__, self.scheduler, and are of the *)
(* same mode, so that their latents have the same shape.                    *)

\* the interleaved run switches between the two calls at most MaxSwitches times
MaxSwitches == 3

\* a single-stage call without guidance on its own seeded generator
PairCall(mode, num_inference_steps, seed) ==
    NewCall(mode, InputImage("pil", 0, 1, unet_img_size, unet_img_size), StrPrompt(1),
            0, 0, num_inference_steps, 0, 1, Generator(seed), <<>>, FALSE, 1)

\* the prev_sample of every scheduler step recorded in a trace
StepResults(tr) ==
    LET steps == SelectSeq(tr, LAMBDA e : e.ev = "step")
    IN  [k \in 1..Len(steps) |-> steps[k].prev_sample]

PairInit ==
    /\ codec = CodecIdle
    /\ scheduler = SchedulerIdle
    /\ trace = <<>>
    /\ rng = RngIdle
    /\ \E mode \in {"t2i", "t"}, S \in 1..MaxSteps, T \in 1..MaxSteps,
          sd \in 1..MaxSeed, other \in 1..(MaxSeed + 1) :
          /\ call = PairCall(mode, S, sd)
          /\ session = [phase |-> "alone", current |-> "A", switches |-> 0,
                        a |-> PairCall(mode, S, sd),
                        parked |-> [call |-> PairCall(mode, T, other), trace |-> <<>>,
                                    rng |-> RngIdle],
                        alone |-> [timesteps |-> <<>>, steps |-> <<>>,
                                   images |-> NoImage, texts |-> <<>>]]

\* call A has returned from its run alone: it is made again, now next to B
StartPair ==
    /\ session.phase = "alone"
    /\ call.pc = "done"
    /\ session' = [session EXCEPT
                      !.phase = "pair",
                      !.alone = [timesteps |-> call.timesteps, steps |-> StepResults(trace),
                                 images |-> call.images, texts |-> call.texts]]
    /\ call' = session.a
    /\ trace' = <<>>
    /\ rng' = RngIdle
    /\ UNCHANGED <<codec, scheduler>>

\* the other call runs next; its locals are its own, self.scheduler is the
\* one object both calls use
Switch ==
    /\ session.phase = "pair"
    /\ session.switches < MaxSwitches
    /\ session.parked.call.pc \notin {"done", "error"}
    /\ session' = [session EXCEPT
                      !.current = IF @ = "A" THEN "B" ELSE "A",
                      !.switches = @ + 1,
                      !.parked = [call |-> call, trace |-> trace, rng |-> rng]]
    /\ call' = session.parked.call
    /\ trace' = session.parked.trace
    /\ rng' = session.parked.rng
    /\ UNCHANGED <<codec, scheduler>>

\* _denoising_sample_fn: self.scheduler.set_timesteps(num_inference_steps)
SetTimesteps ==
    /\ call.pc = "prepared"
    /\ scheduler' = set_timesteps(call.num_inference_steps)
    /\ call' = [call EXCEPT !.pc = "scheduled"]
    /\ trace' = Append(trace, Event("set_timesteps", 1, 0))
    /\ UNCHANGED <<codec, rng, session>>

\* _denoising_sample_fn: timesteps = self.scheduler.timesteps, after the
\* latents were packed
ReadTimesteps ==
    /\ call.pc = "scheduled"
    /\ call' = BeginRun(call, 1, call.mode, call.image_vae_latents, call.image_clip_latents,
                        call.prompt_embeds, scheduler.timesteps)
    /\ UNCHANGED <<codec, scheduler, trace, rng, session>>

PairNext ==
    \/ CheckInputs
    \/ PrepareLatents
    \/ SetTimesteps
    \/ ReadTimesteps
    \/ NoisePred
    \/ SchedulerStep
    \/ EndRun
    \/ PostProcess
    \/ StartPair
    \/ Switch

PairSpec == PairInit /\ [][PairNext]_vars

\* C23: a call whose steps are interleaved with those of another call on the
\* same pipeline reads the same timestep schedule, gets the same scheduler
\* step results and returns the same images and texts as when it runs alone.
C23_CallsIndependent ==
    (session.phase = "pair" /\ session.current = "A") =>
        /\ call.pc \in {"predict", "step", "loop_end", "returned", "done"} =>
              call.timesteps = session.alone.timesteps
        /\ call.pc = "done" =>
              /\ StepResults(trace) = session.alone.steps
              /\ call.images = session.alone.images
              /\ call.texts = session.alone.texts

----------------------------------------------------------------------------
\* the runs a call of this mode makes
RunsOf(mode) == IF mode \in {"t2i2t", "i2t2i"} THEN 2 ELSE 1

\* the statements a call has left to execute before it ends: two per
\* iteration of num_inference_steps iterations in each run, the unpack after
\* the loop and what follows the run, and the three steps before the first
\* run
StepsLeft ==
    LET S == call.num_inference_steps
        run_cost == 2 * S + 2
        later == (RunsOf(call.mode) - call.run) * run_cost
    IN  CASE call.pc = "start" -> 3 + RunsOf(call.mode) * run_cost
          [] call.pc = "checked" -> 2 + RunsOf(call.mode) * run_cost
          [] call.pc = "prepared" -> 1 + RunsOf(call.mode) * run_cost
          [] call.pc = "predict" -> later + 2 * (S - call.i) + 2
          [] call.pc = "step" -> later + 2 * (S - call.i) + 1
          [] call.pc = "loop_end" -> later + 2
          [] call.pc = "returned" -> later + 1
          [] OTHER -> 0

\* the call is at a statement it can execute
Runnable ==
    \/ call.pc \in {"start", "checked", "prepared", "loop_end"}
    \/ call.pc \in {"predict", "step"} /\ call.i < Len(call.timesteps)
    \/ call.pc = "returned" /\ call.run = 1 /\ call.mode \in Modes
    \/ call.pc = "returned" /\ call.run = 2 /\ call.mode \in {"t2i2t", "i2t2i"}

\* C24: every call ends, with an error or completed: a call that has not
\* ended is at a statement it can execute, and every statement executed
\* lowers the number of statements left, which counts num_inference_steps
\* iterations for each run.  A completed call has made exactly
\* num_inference_steps scheduler steps in its run, and in a two-stage mode
\* exactly num_inference_steps in each of its two runs, and its
\* post-processing came last.
C24_Terminates ==
    /\ [](Runnable \/ call.pc \in {"done", "error"})
    /\ [][StepsLeft' < StepsLeft /\ StepsLeft' >= 0]_vars
    /\ [](call.pc = "done" =>
            /\ Len(StepsOf(1)) = call.num_inference_steps
            /\ Len(StepsOf(2)) = (RunsOf(call.mode) - 1) * call.num_inference_steps
            /\ trace[Len(trace)].ev \in {"vae_decode", "generate_captions"})

\* a two-stage call of more than one step has completed after twice its
\* number of steps
C24_Witness ==
    /\ call.pc = "done"
    /\ call.mode = "i2t2i"
    /\ call.num_inference_steps > 1
    /\ StepsLeft = 0
    /\ Len(StepsOf(1)) + Len(StepsOf(2)) = 2 * call.num_inference_steps

----------------------------------------------------------------------------
(* The same call made twice on one pipeline, each time with a generator of  *)
(* the same seed, while the process-wide random state moves on in between.  *)

\* other users of the process-wide random state draw up to MaxOtherDraws
\* numbers between the two calls
MaxOtherDraws == 2

\* the first call is a call on its own seeded generator
ReplayInit ==
    /\ codec = CodecIdle
    /\ scheduler = SchedulerIdle
    /\ trace = <<>>
    /\ rng = RngIdle
    /\ \E c \in { NewCall(mode, InputImage("pil", 0, 1, unet_img_size, unet_img_size),
                           StrPrompt(1), 0, 0, S, g, 1, Generator(sd), <<>>, FALSE, 1) :
                       mode \in Modes, S \in 1..MaxSteps, g \in 0..1, sd \in 1..MaxSeed } :
          /\ call = c
          /\ session = [phase |-> "first", args |-> c,
                        first |-> [images |-> NoImage, texts |-> <<>>]]

\* the first call has returned; others draw `others` numbers from the
\* process-wide random state; the call is made again with a generator
\* seeded as before
Replay ==
    /\ session.phase = "first"
    /\ call.pc = "done"
    /\ \E others \in 0..MaxOtherDraws :
          rng' = [rng EXCEPT !.n = @ + others]
    /\ session' = [session EXCEPT !.phase = "second",
                                  !.first = [images |-> call.images, texts |-> call.texts]]
    /\ call' = session.args
    /\ trace' = <<>>
    /\ UNCHANGED <<codec, scheduler>>

ReplayNext ==
    \/ CheckInputs
    \/ PrepareLatents
    \/ Dispatch
    \/ NoisePred
    \/ SchedulerStep
    \/ EndRun
    \/ PostProcess
    \/ SecondStage
    \/ Finish
    \/ Replay

ReplaySpec == ReplayInit /\ [][ReplayNext]_vars

\* C25: two calls with the same arguments and generators of the same seed
\* return the same images and texts, whatever was drawn from the
\* process-wide random state between them: every draw of a call is taken
\* from its generator.
C25_SeededCallsAgree ==
    (session.phase = "second" /\ call.pc = "done") =>
        /\ call.images = session.first.images
        /\ call.texts = session.first.texts

----------------------------------------------------------------------------
\* C26: the image-VAE, image-CLIP and text tensors handed to a denoising run
\* (and packed in mode joint), and those of every denoising-network call,
\* have the same batch dimension.
C26_OneBatchDimension ==
    /\ (call.pc = "prepared" /\ call.mode \in Modes) =>
          /\ Len(call.image_vae_latents) = Len(call.image_clip_latents)
          /\ Len(call.image_vae_latents) = Len(call.prompt_embeds)
    /\ \A k \in 1..Len(trace) :
          trace[k].ev = "unet" =>
              /\ Len(trace[k].img_vae) = Len(trace[k].img_clip)
              /\ Len(trace[k].img_vae) = Len(trace[k].text)

----------------------------------------------------------------------------
(* Two calls that differ in the negative prompt only *)

\* the call that is made first has no negative prompt: every mode, with a
\* guidance scale below, at and above 1
NegativeInit ==
    /\ codec = CodecIdle
    /\ scheduler = SchedulerIdle
    /\ trace = <<>>
    /\ rng = RngIdle
    /\ \E c \in { NewCall(mode, InputImage("pil", 0, 1, unet_img_size, unet_img_size),
                           StrPrompt(1), 0, 0, S, g, 1, NoGenerator, <<>>, FALSE, 1) :
                       mode \in Modes, S \in 1..MaxSteps, g \in 0..MaxGuidance } :
          /\ call = c
          /\ session = [phase |-> "first", args |-> c,
                        first |-> [trace |-> <<>>, images |-> NoImage, texts |-> <<>>]]

\* the first call has returned; the same call is made from the same random
\* state with some negative_prompt and negative_prompt_embeds
CallWithNegative ==
    /\ session.phase = "first"
    /\ call.pc = "done"
    /\ \E np \in {NoPrompt, StrPrompt(2)}, npe \in {<<>>, text_encoder(<<2>>)} :
          call' = [session.args EXCEPT !.negative_prompt = np,
                                       !.negative_prompt_embeds = npe]
    /\ session' = [session EXCEPT !.phase = "second",
                                  !.first = [trace |-> trace, images |-> call.images,
                                             texts |-> call.texts]]
    /\ rng' = RngIdle
    /\ trace' = <<>>
    /\ UNCHANGED <<codec, scheduler>>

NegativeNext ==
    \/ CheckInputs
    \/ PrepareLatents
    \/ Dispatch
    \/ NoisePred
    \/ SchedulerStep
    \/ EndRun
    \/ PostProcess
    \/ SecondStage
    \/ Finish
    \/ CallWithNegative

NegativeSpec == NegativeInit /\ [][NegativeNext]_vars

\* C27: negative_prompt, negative_prompt_embeds and the guidance scale have
\* no influence on prompt encoding: the prompt embedding of a t2i call is the
\* encoding of its prompt alone, and a call made again with another negative
\* prompt hands the same inputs to the text encoder and to the denoising
\* network and returns the same images and texts.
C27_NegativePromptIgnored ==
    /\ (call.pc = "prepared" /\ call.mode = "t2i") =>
          call.prompt_embeds = encode_prefix(text_encoder(call.prompt.ids))
    /\ (session.phase = "second" /\ call.pc \in {"done", "error"}) =>
          /\ call.pc = "done"
          /\ trace = session.first.trace
          /\ call.images = session.first.images
          /\ call.texts = session.first.texts

C27_Witness ==
    /\ session.phase = "second"
    /\ call.pc = "done"
    /\ call.mode = "t2i"
    /\ call.guidance_scale > 1
    /\ call.negative_prompt = StrPrompt(2)
    /\ \E k \in 1..Len(trace) : trace[k].ev = "text_encoder"
    /\ \E k \in 1..Len(trace) : trace[k].ev = "unet"
    /\ call.images # NoImage

----------------------------------------------------------------------------
\* C28: in every iteration of a denoising run the conditioned call of the
\* noise predictor is handed the fixed inputs the run was entered with: the
\* prompt embedding in modes t2i and i, the image-VAE and image-CLIP latents
\* in modes i2t and t.
C28_ConditioningFixed ==
    LET \* the conditioning inputs handed to run r at loop entry
        EntryPromptEmbeds(r) == IF r = 1 THEN call.prompt_embeds ELSE call.run_prompt_embeds
        EntryImgVae(r) == IF r = 1 THEN call.image_vae_latents ELSE call.run_img_vae
        EntryImgClip(r) == IF r = 1 THEN call.image_clip_latents ELSE call.run_img_clip
    IN
    /\ (call.run = 1 /\ call.run_mode # "") =>
          /\ call.run_prompt_embeds = call.prompt_embeds
          /\ call.run_img_vae = call.image_vae_latents
          /\ call.run_img_clip = call.image_clip_latents
    /\ \A k \in 1..Len(trace) :
          (trace[k].ev = "unet" /\ trace[k].pass = "cond") =>
              /\ trace[k].mode \in {"t2i", "i"} =>
                    trace[k].text = EntryPromptEmbeds(trace[k].run)
              /\ trace[k].mode \in {"i2t", "t"} =>
                    /\ trace[k].img_vae = EntryImgVae(trace[k].run)
                    /\ trace[k].img_clip = EntryImgClip(trace[k].run)

\* a second-stage run of two iterations: the diffused text latent has
\* changed between them and the image conditioning has not
C28_Witness ==
    /\ call.pc = "done"
    /\ call.mode = "t2i2t"
    /\ \E j, k \in 1..Len(trace) :
          /\ trace[j].ev = "unet" /\ trace[k].ev = "unet"
          /\ trace[j].pass = "cond" /\ trace[k].pass = "cond"
          /\ trace[j].run = 2 /\ trace[k].run = 2
          /\ trace[j].i = 0 /\ trace[k].i = 1
          /\ trace[j].text # trace[k].text
          /\ trace[j].img_vae = trace[k].img_vae
          /\ trace[j].img_vae = call.run_img_vae

----------------------------------------------------------------------------
\* C29: generate_captions returns one caption per sample of the text latent
\* it is given, in batch order: once it has been called the call is done and
\* texts holds, for every sample of the batch, the caption decoded from that
\* sample alone.
C29_OneCaptionPerSample ==
    Happened("generate_captions") =>
        /\ call.pc = "done"
        /\ Len(call.texts) = Len(call.outs.text)
        /\ \A b \in 1..Len(call.outs.text) :
              call.texts[b] = SumSeq(FlattenLD(call.outs.text)[b]) % ValMod

----------------------------------------------------------------------------
(* CaptionDecoder.generate_beam: beam search over the language model *)

\* beam_size (5 in the code) and entry_length (67 in the code)
beam_size == 3

entry_length == 3

\* the language models the search is run with
MaxModel == 11

\* log-probabilities are the integers -MaxLogit .. -1
MaxLogit == 3

\* the stop token is the last entry of the vocabulary
\* (vocab_size = len(self.tokenizer) after add_special_tokens)
stop_token_index == beam_size

Beams == 1..beam_size

\* F.softmax(self.gpt(inputs_embeds=generated)[:, -1, :] / temperature).log()
\* for language model m: one negative log-probability per token, which
\* depends on the tokens that follow the prefix in `generated`
gpt(m, toks) ==
    LET generated == SumSeq([k \in 1..Len(toks) |-> k * (toks[k] + 1)])
    IN  [v \in 0..stop_token_index |-> 0 - (1 + (((v + 1) * (m + 1) + generated * (v + 2)) % MaxLogit))]

\* a candidate [b, v, sum, len] is the continuation of beam b (1-based) with
\* token v; sum is the score after the token and len the sequence length the
\* sum is averaged by.
\* topk(k) of the averages sum / len: the k best candidates in descending
\* order (c is no worse than d when c.sum * d.len >= d.sum * c.len, lengths
\* being positive); the order among equal averages is left to the library
RECURSIVE topk(_, _)
topk(cands, k) ==
    IF k = 0 THEN {<<>>}
    ELSE UNION { { <<c>> \o rest : rest \in topk(cands \ {c}, k - 1) } :
                 c \in { c \in cands : \A d \in cands : c.sum * d.len >= d.sum * c.len } }

\* the entries of scores_sum_average that are not -inf.
\* `mask = paddle.cast(is_stopped, "int32")`, `logits[mask] = -inf`,
\* `logits[mask, 0] = 0`: the rows the mask indexes are masked;
\* `incerse_mask = paddle.cast(~is_stopped, "int32")`,
\* `seq_lengths[incerse_mask] += 1`: the rows it indexes are incremented
Candidates(m, tokens, scores, seq_lengths, is_stopped) ==
    LET \* paddle.cast(flags, "int32") used as an index: the (1-based) rows
        \* that the integers 0 and 1 of the cast select
        RowsIndexedBy(flags) == { (IF flags[b] THEN 1 ELSE 0) + 1 : b \in Beams }
        MaskedRows == RowsIndexedBy(is_stopped)
        IncrementedRows == RowsIndexedBy([b \in Beams |-> ~is_stopped[b]])
    IN  UNION { { [b |-> b, v |-> v,
                     sum |-> scores[b] + (IF b \in MaskedRows THEN 0
                                          ELSE gpt(m, tokens[b])[v]),
                     len |-> seq_lengths[b] + (IF b \in IncrementedRows THEN 1 ELSE 0)] :
                    v \in { w \in 0..stop_token_index : b \in MaskedRows => w = 0 } } :
                b \in Beams }

BeamInit ==
    /\ codec = CodecIdle
    /\ scheduler = SchedulerIdle
    /\ trace = <<>>
    /\ rng = RngIdle
    /\ call = CallIdle
    /\ \E m \in 0..MaxModel :
          session = [pc |-> "start", lm |-> m, i |-> 0,
                     tokens |-> [b \in Beams |-> <<>>],
                     scores |-> [b \in Beams |-> 0],
                     seq_lengths |-> [b \in Beams |-> 1],
                     is_stopped |-> [b \in Beams |-> FALSE],
                     next_tokens_source |-> [b \in Beams |-> 1],
                     output_texts |-> <<>>]

\* iteration 0, `if scores is None`: the beams are the beam_size best tokens
\* after the prefix; the loop ends on `is_stopped.all()` or when the range
\* is used up
FirstStep ==
    /\ session.pc = "start"
    /\ \E sel \in topk({ [b |-> 1, v |-> v, sum |-> gpt(session.lm, <<>>)[v], len |-> 1] :
                            v \in 0..stop_token_index }, beam_size) :
          LET is_stopped == [b \in Beams |-> sel[b].v = stop_token_index]
          IN  session' = [session EXCEPT
                  !.pc = IF (\A b \in Beams : is_stopped[b]) \/ 1 = entry_length
                         THEN "ended" ELSE "loop",
                  !.i = 1,
                  !.tokens = [b \in Beams |-> <<sel[b].v>>],
                  !.scores = [b \in Beams |-> sel[b].sum],
                  !.is_stopped = is_stopped]
    /\ UNCHANGED <<codec, call, scheduler, trace, rng>>

\* a later iteration, the else branch: mask, add, average, topk, gather
NextStep ==
    /\ session.pc = "loop"
    /\ \E sel \in topk(Candidates(session.lm, session.tokens, session.scores,
                                  session.seq_lengths, session.is_stopped), beam_size) :
          LET is_stopped == [b \in Beams |-> session.is_stopped[sel[b].b]
                                             \/ sel[b].v = stop_token_index]
          IN  session' = [session EXCEPT
                  !.pc = IF (\A b \in Beams : is_stopped[b]) \/ session.i + 1 = entry_length
                         THEN "ended" ELSE "loop",
                  !.i = @ + 1,
                  !.next_tokens_source = [b \in Beams |-> sel[b].b],
                  !.seq_lengths = [b \in Beams |-> sel[b].len],
                  !.tokens = [b \in Beams |-> Append(session.tokens[sel[b].b], sel[b].v)],
                  !.scores = [b \in Beams |-> sel[b].sum],
                  !.is_stopped = is_stopped]
    /\ UNCHANGED <<codec, call, scheduler, trace, rng>>

\* after the loop: the texts of the beams,
\* tokenizer.decode(output[: int(length)], skip_special_tokens=True), in
\* descending order of scores / seq_lengths
ReturnTexts ==
    /\ session.pc = "ended"
    /\ \E order \in topk({ [b |-> b, v |-> 0, sum |-> session.scores[b],
                              len |-> session.seq_lengths[b]] : b \in Beams }, beam_size) :
          session' = [session EXCEPT
              !.pc = "done",
              !.output_texts = [k \in Beams |->
                  LET output == session.tokens[order[k].b]
                      length == session.seq_lengths[order[k].b]
                  IN  SelectSeq(SubSeq(output, 1, IF length < Len(output) THEN length
                                                  ELSE Len(output)),
                                LAMBDA v : v # stop_token_index)]]
    /\ UNCHANGED <<codec, call, scheduler, trace, rng>>

BeamNext ==
    \/ FirstStep
    \/ NextStep
    \/ ReturnTexts

BeamSpec == BeamInit /\ [][BeamNext]_vars

\* C30: in every step after the first a beam continued from a stopped beam
\* keeps the length and the score of that beam and is extended with token 0,
\* a beam continued from a beam that has not stopped has the length of that
\* beam plus one; the search goes on only while some beam has not stopped
\* and fewer than entry_length steps were made, and ends otherwise.
C30_StoppedBeamsFrozen ==
    /\ [][(session.pc = "loop" /\ session'.i = session.i + 1) =>
            \A j \in Beams :
                LET s == session'.next_tokens_source[j]
                IN  /\ session.is_stopped[s] =>
                          /\ session'.seq_lengths[j] = session.seq_lengths[s]
                          /\ session'.tokens[j] = Append(session.tokens[s], 0)
                          /\ session'.scores[j] = session.scores[s]
                    /\ ~session.is_stopped[s] =>
                          session'.seq_lengths[j] = session.seq_lengths[s] + 1]_vars
    /\ [](session.pc = "loop" =>
            (\E b \in Beams : ~session.is_stopped[b]) /\ session.i < entry_length)
    /\ [](session.pc \in {"ended", "done"} =>
            (\A b \in Beams : session.is_stopped[b]) \/ session.i = entry_length)

====
